---- MODULE Spec2Model ----
(***************************************************************************)
(* Model of the dynamic memory agent: the Retrieval aggregate and the      *)
(* query generator that drives it, the memory evaluator's result parser,   *)
(* the Neo4j graph memory engine, and the web UI's generate_response.      *)
(***************************************************************************)
EXTENDS Integers, Sequences, FiniteSets, TLC

VARIABLES
    conversation,   \* roles of the conversation's messages, oldest first
    retrieval,      \* the Retrieval aggregate, or NoRetrieval
    pc,             \* position of the generate_queries call
    attempts,       \* generate_queries local: failed attempts so far
    success,        \* generate_queries local
    step,           \* generate_queries local: the parsed step, or NoStep
    genCalls,       \* generator.generate calls made by the current generate_queries call
    loop,           \* position of the retrieval loop ("off": calls come from a direct caller)
    summary_ret,    \* value returned by the last finalize() call
    ev_memories,    \* _parse_evaluation_result: the memories that were evaluated
    ev_result,      \* _parse_evaluation_result: the generator's EvaluationResult
    evaluation,     \* the Evaluation returned, or NoEvaluation
    relevant_ret,   \* get_relevant_memories: the threshold and the list returned, or NotCalled
    graph,          \* contents of the graph database
    now,            \* the database clock, timestamp()
    store_call,     \* the last call made on the graph memory engine
    store_ret,      \* the value that call returned
    time_entry,     \* _parse_reasoning_and_json: the time fields of one entry of the reply
    time_query,     \* the time fields of the RetrievalQuery made from it, or NotCalled
    generating_response,  \* DMAWebUI._generating_response
    web_pc,         \* position of each generate_response call
    running,        \* the calls whose pipeline.generate is running in the executor
    conversations,  \* the messages of the user's conversations, by key
    chunks,         \* the chunks each generate_response call has yielded
    call_args,      \* the arguments of the last call of a side-effect-free method
    call_ret        \* the value that call returned, or NotCalled

retrievalVars == <<conversation, retrieval, pc, attempts, success, step, genCalls, loop, summary_ret>>

evalVars == <<ev_memories, ev_result, evaluation, relevant_ret>>

storeVars == <<graph, now, store_call, store_ret>>

timeVars == <<time_entry, time_query>>

webVars == <<generating_response, web_pc, running, conversations, chunks>>

callVars == <<call_args, call_ret>>

vars == <<retrievalVars, evalVars, storeVars, timeVars, webVars, callVars>>

-----------------------------------------------------------------------------
(* Bounds *)

MaxMessages == 2
MaxReplyQueries == 2
MaxIterChoice == 3
MaxSteps == 3

-----------------------------------------------------------------------------
(* Values of the parts a specification leaves alone *)

EmptyFcn == [x \in {} |-> 0]

NoEvaluation == [none |-> TRUE]
NotCalled == [called |-> FALSE]
NoCall == [op |-> "none"]

EmptyGraph ==
    [memory_nodes |-> EmptyFcn,     \* Memory id -> access properties
     entity_nodes |-> EmptyFcn,     \* Entity name -> mentionsCount
     mentions |-> EmptyFcn,         \* <<memory id, entity name>> -> count
     mentioned_with |-> EmptyFcn,   \* <<entity name, entity name>> -> coMentionCount
     next_in_series |-> {},         \* <<memory id, memory id>>
     related_to |-> EmptyFcn,       \* <<memory id, memory id>> -> connection_strength
     sourced_from |-> {},           \* <<memory id, source name>>
     authored_by |-> {},            \* <<memory id, author name>>
     storage |-> TRUE]              \* the Storage node 'general_storage' exists

EvalIdle ==
    /\ ev_memories = <<>>
    /\ ev_result = [evaluations_list |-> <<>>, fully_answered_bool |-> FALSE]
    /\ evaluation = NoEvaluation
    /\ relevant_ret = NotCalled

StoreIdle ==
    /\ graph = EmptyGraph
    /\ now = 0
    /\ store_call = NoCall
    /\ store_ret = <<>>

\* a time expression: a word, a number with a unit suffix ("3d", "2weeks"), or
\* a date written in the format named by text
TimePoint(form, text, n, d, m, y) ==
    [form |-> form, text |-> text, n |-> n, d |-> d, m |-> m, y |-> y]

Word(text) == TimePoint("word", text, 0, 0, 0, 0)

CallIdle ==
    /\ call_args = <<>>
    /\ call_ret = NotCalled

TimeIdle ==
    /\ time_entry = [time_relevance |-> "UNKNOWN", time_point |-> Word("UNKNOWN")]
    /\ time_query = NotCalled

MaxCalls == 3

Calls == 1..MaxCalls

WebIdle ==
    /\ generating_response = FALSE
    /\ web_pc = [c \in Calls |-> "idle"]
    /\ running = {}
    /\ conversations = [conversation |-> <<>>, alt_conversation_1 |-> <<>>]
    /\ chunks = [c \in Calls |-> <<>>]

-----------------------------------------------------------------------------
(* core/message.py, core/retrieval.py: values *)

Role == {"user", "assistant", "system"}

NoRetrieval == [none |-> TRUE]
NoStep == [nostep |-> TRUE]

EmptyStr == [kind |-> "empty", parts |-> <<>>]
ClarificationPrefix == [kind |-> "clarification", parts |-> <<>>]

DefaultMaxIterations == 3

RetrievalStep(queries, results, summary, clarification_needed, is_pre_query) ==
    [queries |-> queries, results |-> results, summary |-> summary,
     clarification_needed |-> clarification_needed, is_pre_query |-> is_pre_query]

Retrieval(max_iterations) ==
    [steps |-> <<>>, final_summary |-> EmptyStr, max_iterations |-> max_iterations,
     current_iteration |-> 0, done |-> FALSE, satisfactory |-> FALSE,
     last_summary_count |-> -1]

\* Retrieval.add_step
add_step_no_increment(r, s) ==
    [r EXCEPT !.steps = Append(r.steps, s)]

add_step_late_done(r, s) ==
    [r EXCEPT !.steps = Append(r.steps, s),
              !.current_iteration = r.current_iteration + 1,
              !.done = IF r.current_iteration + 1 > r.max_iterations THEN TRUE ELSE r.done]

add_step_done_one_early(r, s) ==
    [r EXCEPT !.steps = Append(r.steps, s),
              !.current_iteration = r.current_iteration + 1,
              !.done = IF r.current_iteration + 2 >= r.max_iterations THEN TRUE ELSE r.done]

add_step(r, s) ==
    [r EXCEPT !.steps = Append(r.steps, s),
              !.current_iteration = r.current_iteration + 1,
              !.done = IF r.current_iteration + 1 >= r.max_iterations THEN TRUE ELSE r.done]

\* Retrieval.mark_satisfactory
mark_satisfactory_only_flag(r) == [r EXCEPT !.satisfactory = TRUE]

mark_satisfactory(r) == [r EXCEPT !.satisfactory = TRUE, !.done = TRUE]

\* Retrieval.needs_clarification
needs_clarification(r) ==
    IF Len(r.steps) = 0 THEN FALSE
    ELSE IF Len(r.steps) = 1 THEN r.steps[1].clarification_needed
    ELSE IF Len(r.steps) = 2 /\ r.steps[1].is_pre_query THEN r.steps[2].clarification_needed
    ELSE FALSE

RECURSIVE Flatten(_)
Flatten(seqs) == IF seqs = <<>> THEN <<>> ELSE Head(seqs) \o Flatten(Tail(seqs))

RECURSIVE SumLen(_)
SumLen(seqs) == IF seqs = <<>> THEN 0 ELSE Len(Head(seqs)) + SumLen(Tail(seqs))

StepResults(r) == [i \in 1..Len(r.steps) |-> r.steps[i].results]

\* "\n".join(summaries) of the non-empty summaries
JoinSummaries(r) ==
    LET nonEmpty == SelectSeq([i \in 1..Len(r.steps) |-> r.steps[i].summary], LAMBDA s : s # "")
    IN IF nonEmpty = <<>> THEN EmptyStr ELSE [kind |-> "joined", parts |-> nonEmpty]

\* the bullet list built from the raw memory texts
FlatSummary(r) == [kind |-> "flat", parts |-> Flatten(StepResults(r))]

\* Retrieval.finalize: the pair of the updated aggregate and the returned string
finalize_returns_joined(r, force_new) ==
    IF needs_clarification(r) THEN [r |-> r, ret |-> ClarificationPrefix]
    ELSE LET total_memories == SumLen(StepResults(r)) IN
         IF r.final_summary # EmptyStr /\ ~force_new /\ r.last_summary_count = total_memories
         THEN [r |-> r, ret |-> r.final_summary]
         ELSE LET joined == JoinSummaries(r)
                  fs == IF joined = EmptyStr THEN FlatSummary(r) ELSE joined
              IN [r |-> [r EXCEPT !.final_summary = fs, !.last_summary_count = total_memories],
                  ret |-> joined]

finalize(r, force_new) ==
    IF needs_clarification(r) THEN [r |-> r, ret |-> ClarificationPrefix]
    ELSE LET total_memories == SumLen(StepResults(r)) IN
         IF r.final_summary # EmptyStr /\ ~force_new /\ r.last_summary_count = total_memories
         THEN [r |-> r, ret |-> r.final_summary]
         ELSE LET joined == JoinSummaries(r)
                  fs == IF joined = EmptyStr THEN FlatSummary(r) ELSE joined
              IN [r |-> [r EXCEPT !.final_summary = fs, !.last_summary_count = total_memories],
                  ret |-> fs]

-----------------------------------------------------------------------------
(* query/query_generator.py *)

max_attempts == 3

\* One entry of the reply's "queries" list, by what the parser does with it:
\*   "not_dict"   is not a JSON object,
\*   "no_text"    has no non-empty string under "query",
\*   "bad_entity" passes the reply parser but names an empty entity,
\*   "ok"         converts into a RetrievalQuery.
QueryEntry == {"not_dict", "no_text", "bad_entity", "ok"}

SeqsUpTo(S, n) == UNION {[1..k -> S] : k \in 0..n}

\* A reply of the generator: it raises, it holds no JSON object with a
\* "queries" or "clarification_needed" field, or it holds one.
Reply ==
    {[kind |-> "raise", clarification_needed |-> FALSE, queries |-> <<>>],
     [kind |-> "invalid", clarification_needed |-> FALSE, queries |-> <<>>]}
    \cup [kind : {"json"}, clarification_needed : BOOLEAN,
          queries : SeqsUpTo(QueryEntry, MaxReplyQueries)]

ParseFailure == [failure |-> TRUE]

\* QueryGenerator._parse_reasoning_and_json: the ContextQuery list, or a failure
\* (a raised ValueError)
parse_reasoning_and_json(reply) ==
    IF reply.kind # "json" THEN ParseFailure
    ELSE IF \E i \in 1..Len(reply.queries) : reply.queries[i] = "not_dict" THEN ParseFailure
    ELSE [failure |-> FALSE,
          queries |-> SelectSeq(reply.queries, LAMBDA e : e # "no_text"),
          clarification_needed |-> reply.clarification_needed]

\* QueryGenerator._parse_response: the new RetrievalStep, or a failure (a raised exception)
parse_response(reply) ==
    LET parsed == parse_reasoning_and_json(reply) IN
    IF parsed.failure THEN ParseFailure
    ELSE IF Len(parsed.queries) = 0
         THEN RetrievalStep(<<>>, <<>>, "", parsed.clarification_needed, FALSE)
    ELSE LET converted == SelectSeq(parsed.queries, LAMBDA e : e = "ok") IN
         IF Len(converted) = 0 /\ Len(parsed.queries) > 0 THEN ParseFailure
         ELSE RetrievalStep(converted, <<>>, "", parsed.clarification_needed, FALSE)

\* the check made by _prepare_prompt (and again before a Retrieval is created)
LastMessageIsUser ==
    Len(conversation) > 0 /\ conversation[Len(conversation)] = "user"

InCall == pc = "generating"

\* generate_queries, entry: build the prompt, create the Retrieval when none is given
GQ_Call_creates_first ==
    /\ ~InCall
    /\ \/ loop = "off" /\ (IF retrieval = NoRetrieval THEN TRUE ELSE Len(retrieval.steps) < MaxSteps)
       \/ loop = "query_generation" /\ pc = "idle"
    /\ retrieval' = IF retrieval = NoRetrieval
                     THEN Retrieval(DefaultMaxIterations) ELSE retrieval
    /\ IF ~LastMessageIsUser
       THEN /\ pc' = "raised"
            /\ UNCHANGED <<attempts, success, step, genCalls>>
       ELSE /\ attempts' = 0
            /\ success' = FALSE
            /\ step' = NoStep
            /\ genCalls' = 0
            /\ pc' = "generating"
    /\ UNCHANGED <<conversation, loop, summary_ret, evalVars, storeVars, timeVars, webVars, callVars>>

GQ_Call ==
    /\ ~InCall
    /\ \/ loop = "off" /\ (IF retrieval = NoRetrieval THEN TRUE ELSE Len(retrieval.steps) < MaxSteps)
       \/ loop = "query_generation" /\ pc = "idle"
    /\ IF ~LastMessageIsUser
       THEN /\ pc' = "raised"
            /\ UNCHANGED <<retrieval, attempts, success, step, genCalls>>
       ELSE /\ retrieval' = IF retrieval = NoRetrieval
                            THEN Retrieval(DefaultMaxIterations) ELSE retrieval
            /\ attempts' = 0
            /\ success' = FALSE
            /\ step' = NoStep
            /\ genCalls' = 0
            /\ pc' = "generating"
    /\ UNCHANGED <<conversation, loop, summary_ret, evalVars, storeVars, timeVars, webVars, callVars>>

\* generate_queries, one turn of the while loop: call the generator, parse its reply
GQ_Attempt(reply) ==
    /\ pc = "generating"
    /\ ~success /\ attempts < max_attempts
    /\ genCalls' = genCalls + 1
    /\ LET parsed == IF reply.kind = "raise" THEN ParseFailure ELSE parse_response(reply) IN
       IF parsed = ParseFailure
       THEN /\ attempts' = attempts + 1
            /\ UNCHANGED <<success, step>>
       ELSE /\ step' = parsed
            /\ success' = TRUE
            /\ UNCHANGED attempts
    /\ UNCHANGED <<conversation, retrieval, pc, loop, summary_ret, evalVars, storeVars, timeVars, webVars, callVars>>

\* generate_queries, after the while loop
GQ_FinishOutcome_keeps_satisfactory(r, st, ok) ==
    IF st # NoStep /\ ok
    THEN IF Len(st.queries) = 0 THEN mark_satisfactory(add_step(r, st)) ELSE add_step(r, st)
    ELSE [r EXCEPT !.done = TRUE]

GQ_FinishOutcome(r, st, ok) ==
    IF st # NoStep /\ ok
    THEN IF Len(st.queries) = 0 THEN mark_satisfactory(add_step(r, st)) ELSE add_step(r, st)
    ELSE [r EXCEPT !.done = TRUE, !.satisfactory = FALSE]

GQ_Finish ==
    /\ pc = "generating"
    /\ ~(~success /\ attempts < max_attempts)
    /\ retrieval' = GQ_FinishOutcome(retrieval, step, success)
    /\ pc' = "returned"
    /\ UNCHANGED <<conversation, attempts, success, step, genCalls, loop, summary_ret, evalVars, storeVars, timeVars, webVars, callVars>>

-----------------------------------------------------------------------------
(* utils/date_parser.py and the time fields of a query (query_generator.py) *)

RetrievalIdle ==
    /\ conversation = <<>> /\ retrieval = NoRetrieval /\ pc = "idle" /\ attempts = 0
    /\ success = FALSE /\ step = NoStep /\ genCalls = 0 /\ loop = "off"
    /\ summary_ret = EmptyStr

MaxAmount == 2

DAY_IN_SECONDS == 60 * 60 * 24
WEEK_IN_SECONDS == DAY_IN_SECONDS * 7
MONTH_IN_SECONDS == DAY_IN_SECONDS * 30
YEAR_IN_SECONDS == DAY_IN_SECONDS * 365

\* the values time.time() takes
Clocks == {1700000000, 1700086400}

\* the unit suffixes in the order of the elif chain, and their lengths in seconds
UnitSeconds(suffix) ==
    CASE suffix \in {"d", "days", "day"} -> DAY_IN_SECONDS
      [] suffix \in {"w", "weeks", "week"} -> WEEK_IN_SECONDS
      [] suffix \in {"m", "months", "month"} -> MONTH_IN_SECONDS
      [] suffix \in {"y", "years", "year"} -> YEAR_IN_SECONDS

\* the strptime formats tried that a complete date satisfies, and the one for a year alone
DateFormats == {"%d-%m-%Y", "%Y-%m-%d"}

LeapsBefore(y) == ((y - 1) \div 4) - ((y - 1) \div 100) + ((y - 1) \div 400)

IsLeap(y) == (y % 4 = 0 /\ y % 100 # 0) \/ y % 400 = 0

DaysBeforeMonth(m, y) ==
    LET cumulative == <<0, 31, 59, 90, 120, 151, 181, 212, 243, 273, 304, 334>>
    IN cumulative[m] + (IF m > 2 /\ IsLeap(y) THEN 1 ELSE 0)

\* time.mktime(time.strptime(...)) of a date, the local time zone being UTC
mktime(d, m, y) ==
    ((y - 1970) * 365 + LeapsBefore(y) - LeapsBefore(1970) + DaysBeforeMonth(m, y) + (d - 1))
        * DAY_IN_SECONDS

\* parse_timestamp on a string: seconds since the epoch, or -1
parse_timestamp(timestamp, clock) ==
    \* a word is in the list of unknowns or matches no format
    CASE timestamp.form = "word" -> -1
      [] timestamp.form = "duration" -> clock - timestamp.n * UnitSeconds(timestamp.text)
      [] timestamp.form = "date" ->
            IF timestamp.text = "%Y" THEN mktime(1, 1, timestamp.y)
            ELSE mktime(timestamp.d, timestamp.m, timestamp.y)

\* TimeRelevance.from_string
from_string(time_relevance) ==
    LET upper == CASE time_relevance = "day" -> "DAY"
                   [] time_relevance = "year" -> "YEAR"
                   [] OTHER -> time_relevance
    IN IF upper \in {"UNKNOWN", "DAY", "WEEK", "MONTH", "YEAR", "DECADE", "CENTURY", "ALWAYS"}
       THEN upper ELSE "UNKNOWN"

\* a str value and a float value
Str(x) == [type |-> "str", value |-> x]
Float(x) == [type |-> "float", value |-> x]

\* d.get("time_point", "UNKNOWN") or "UNKNOWN"
time_point_str(d) == IF d.time_point = Word("") THEN Word("UNKNOWN") ELSE d.time_point

\* _parse_reasoning_and_json, the time fields of the ContextQuery built from entry d
ContextQuery(d, clock) ==
    LET time_point == IF time_point_str(d) # Word("UNKNOWN")
                      THEN parse_timestamp(time_point_str(d), clock) ELSE -1
        time_relevance == from_string(d.time_relevance)
    IN [time_relevance |-> IF time_point = -1 /\ time_relevance # "ALWAYS"
                           THEN "UNKNOWN" ELSE time_relevance,
        time_point |-> Str(time_point_str(d))]

\* _parse_response: RetrievalQuery.from_text(..., time_relevance, timestamp=query.time_point)
RetrievalQueryTime(query) ==
    [called |-> TRUE, time_relevance |-> query.time_relevance, timestamp |-> query.time_point]

\* one entry of the reply goes through both parsers
ParseTimeFields(clock) ==
    /\ time_query = NotCalled
    /\ time_query' = RetrievalQueryTime(ContextQuery(time_entry, clock)) @@ [clock |-> clock]
    /\ UNCHANGED <<time_entry, retrievalVars, evalVars, storeVars, webVars, callVars>>

\* the time expressions a reply carries
TimePoints ==
    {Word("UNKNOWN"), Word(""), Word("Always"), Word("soon")}
    \cup {TimePoint("duration", suffix, n, 0, 0, 0) :
              suffix \in {"d", "days", "w", "weeks", "m", "y"}, n \in 0..MaxAmount}
    \cup {TimePoint("date", fmt, 0, d, m, 2024) :
              fmt \in DateFormats, d \in {1, 29}, m \in {2, 3}}
    \cup {TimePoint("date", "%Y", 0, 0, 0, y) : y \in {1999, 2024}}

TimeRelevanceStr == {"UNKNOWN", "day", "ALWAYS", "bogus"}

InitTime ==
    /\ time_entry \in [time_relevance : TimeRelevanceStr, time_point : TimePoints]
    /\ time_query = NotCalled
    /\ RetrievalIdle /\ EvalIdle /\ StoreIdle /\ CallIdle /\ WebIdle

NextTime == \E clock \in Clocks : ParseTimeFields(clock)

SpecTime == InitTime /\ [][NextTime]_vars

\* the utility resolves the time expression of the entry
Resolvable(d, clock) ==
    /\ time_point_str(d) # Word("UNKNOWN")
    /\ parse_timestamp(time_point_str(d), clock) # -1

\* C19: a RetrievalQuery made from a reply carries in its timestamp field the
\* epoch timestamp the date-parsing utility gives for the time expression,
\* never the expression itself, whenever the utility resolves the expression.
C19_TimestampIsParsed ==
    IF time_query = NotCalled THEN TRUE
    ELSE Resolvable(time_entry, time_query.clock)
         => /\ time_query.timestamp.type = "float"
            /\ time_query.timestamp =
                   Float(parse_timestamp(time_point_str(time_entry), time_query.clock))

-----------------------------------------------------------------------------
(* webui/api.py: DMAWebUI.generate_response, an async generator on the      *)
(* event loop.  A step runs from one suspension point (await, yield) to the *)
(* next; pipeline.generate runs on an executor thread beside the loop.      *)

MaxUpdates == 1

Yield(c, type) == [chunks EXCEPT ![c] = Append(@, type)]

add_message(key, c, role) == [conversations EXCEPT ![key] = Append(@, <<c, role>>)]

\* the call starts: the guard, or the flag, the user's message and the executor
WebEnter(c) ==
    /\ web_pc[c] = "idle"
    /\ IF generating_response
       THEN /\ chunks' = Yield(c, "error")
            /\ web_pc' = [web_pc EXCEPT ![c] = "rejected"]
            /\ UNCHANGED <<generating_response, running, conversations>>
       ELSE /\ generating_response' = TRUE
            /\ conversations' = add_message("conversation", c, "user")
            /\ running' = running \cup {c}
            /\ web_pc' = [web_pc EXCEPT ![c] = "streaming"]
            /\ UNCHANGED chunks
    /\ UNCHANGED <<retrievalVars, evalVars, storeVars, timeVars, callVars>>

\* the rejected call resumes after its error chunk and returns, outside the try
WebRejectedReturn(c) ==
    /\ web_pc[c] = "rejected"
    /\ web_pc' = [web_pc EXCEPT ![c] = "done"]
    /\ UNCHANGED <<generating_response, running, conversations, chunks>>
    /\ UNCHANGED <<retrievalVars, evalVars, storeVars, timeVars, callVars>>

\* _handle_pipeline_updates yields an update of the running pipeline
WebUpdate(c) ==
    /\ web_pc[c] = "streaming"
    /\ c \in running
    /\ Len(chunks[c]) < MaxUpdates
    /\ chunks' = Yield(c, "update")
    /\ UNCHANGED <<generating_response, web_pc, running, conversations>>
    /\ UNCHANGED <<retrievalVars, evalVars, storeVars, timeVars, callVars>>

\* pipeline.generate returns or raises on its thread after an update that
\* ends _handle_pipeline_updates; a call that still waits for it gets the
\* outcome from `await main_task`
PipelineReturn(c, outcome) ==
    /\ c \in running
    /\ running' = running \ {c}
    /\ web_pc' = IF web_pc[c] = "streaming"
                 THEN [web_pc EXCEPT ![c] = outcome] ELSE web_pc
    /\ UNCHANGED <<generating_response, conversations, chunks>>
    /\ UNCHANGED <<retrievalVars, evalVars, storeVars, timeVars, callVars>>

\* the response chunks are yielded
WebRespond(c) ==
    /\ web_pc[c] = "returned"
    /\ chunks' = Yield(c, "response")
    /\ web_pc' = [web_pc EXCEPT ![c] = "responding"]
    /\ UNCHANGED <<generating_response, running, conversations>>
    /\ UNCHANGED <<retrievalVars, evalVars, storeVars, timeVars, callVars>>

\* the response is appended; in compare mode the local LLM is awaited next,
\* otherwise the finally clause clears the flag
WebFinish(c, mode) ==
    /\ web_pc[c] = "responding"
    /\ IF mode = "compare"
       THEN /\ conversations' =
                  [add_message("conversation", c, "assistant")
                     EXCEPT !["alt_conversation_1"] = Append(@, <<c, "user">>)]
            /\ web_pc' = [web_pc EXCEPT ![c] = "comparing"]
            /\ UNCHANGED generating_response
       ELSE /\ conversations' = add_message("conversation", c, "assistant")
            /\ web_pc' = [web_pc EXCEPT ![c] = "done"]
            /\ generating_response' = FALSE
    /\ UNCHANGED <<running, chunks>>
    /\ UNCHANGED <<retrievalVars, evalVars, storeVars, timeVars, callVars>>

\* compare mode: the alternative responses are yielded, then finally
WebCompareDone(c) ==
    /\ web_pc[c] = "comparing"
    /\ chunks' = Yield(c, "response")
    /\ conversations' = add_message("alt_conversation_1", c, "assistant")
    /\ web_pc' = [web_pc EXCEPT ![c] = "done"]
    /\ generating_response' = FALSE
    /\ UNCHANGED running
    /\ UNCHANGED <<retrievalVars, evalVars, storeVars, timeVars, callVars>>

\* an exception inside the try: the except clause yields an error chunk, then finally
WebFail(c) ==
    /\ web_pc[c] \in {"raised", "comparing"}
    /\ chunks' = Yield(c, "error")
    /\ web_pc' = [web_pc EXCEPT ![c] = "done"]
    /\ generating_response' = FALSE
    /\ UNCHANGED <<running, conversations>>
    /\ UNCHANGED <<retrievalVars, evalVars, storeVars, timeVars, callVars>>

\* the client goes away while the call is suspended inside the try: the
\* generator is cancelled or closed, CancelledError and GeneratorExit pass
\* `except Exception`, and the finally clause runs; the executor thread is
\* not stopped
WebCancel(c) ==
    /\ web_pc[c] \in {"streaming", "waiting", "returned", "raised", "responding", "comparing"}
    /\ web_pc' = [web_pc EXCEPT ![c] = "done"]
    /\ generating_response' = FALSE
    /\ UNCHANGED <<running, conversations, chunks>>
    /\ UNCHANGED <<retrievalVars, evalVars, storeVars, timeVars, callVars>>

InitWeb == WebIdle /\ RetrievalIdle /\ EvalIdle /\ StoreIdle /\ CallIdle /\ TimeIdle

NextWeb ==
    \E c \in Calls :
        \/ WebEnter(c)
        \/ WebRejectedReturn(c)
        \/ WebUpdate(c)
        \/ \E outcome \in {"returned", "raised"} : PipelineReturn(c, outcome)
        \/ WebRespond(c)
        \/ \E mode \in {"chat", "compare"} : WebFinish(c, mode)
        \/ WebCompareDone(c)
        \/ WebFail(c)
        \/ WebCancel(c)

SpecWeb == InitWeb /\ [][NextWeb]_vars

\* a call that finds the flag set yields an error chunk and touches nothing else
GuardRejects ==
    [][\A c \in Calls :
          (WebEnter(c) /\ generating_response)
          => /\ chunks'[c] = <<"error">>
             /\ running' = running
             /\ conversations' = conversations
             /\ generating_response' = generating_response]_vars

\* C20: at most one pipeline.generate started by generate_response is in
\* progress at any time.
C20_OnePipelineAtATime == Cardinality(running) <= 1

-----------------------------------------------------------------------------
(* A direct caller of the Retrieval aggregate *)

\* the steps a direct caller hands to add_step
CallerSteps ==
    {RetrievalStep(<<"ok">>, <<>>, "", FALSE, FALSE),
     RetrievalStep(<<"ok">>, <<"m1">>, "s1", FALSE, FALSE),
     RetrievalStep(<<"ok">>, <<"m1">>, "", FALSE, TRUE),
     RetrievalStep(<<>>, <<>>, "", TRUE, FALSE),
     RetrievalStep(<<>>, <<>>, "", FALSE, FALSE)}

AddStep(s) ==
    /\ loop = "off" /\ ~InCall
    /\ retrieval # NoRetrieval
    /\ Len(retrieval.steps) < MaxSteps
    /\ retrieval' = add_step(retrieval, s)
    /\ UNCHANGED <<conversation, pc, attempts, success, step, genCalls, loop, summary_ret, evalVars, storeVars, timeVars, webVars, callVars>>

MarkSatisfactory ==
    /\ loop = "off" /\ ~InCall
    /\ retrieval # NoRetrieval
    /\ retrieval' = mark_satisfactory(retrieval)
    /\ UNCHANGED <<conversation, pc, attempts, success, step, genCalls, loop, summary_ret, evalVars, storeVars, timeVars, webVars, callVars>>

Finalize(force_new) ==
    /\ loop = "off" /\ ~InCall
    /\ retrieval # NoRetrieval
    /\ LET f == finalize(retrieval, force_new) IN
       /\ retrieval' = f.r
       /\ summary_ret' = f.ret
    /\ UNCHANGED <<conversation, pc, attempts, success, step, genCalls, loop, evalVars, storeVars, timeVars, webVars, callVars>>

-----------------------------------------------------------------------------
(* The retrieval loop of the pipeline: query generation, retrieval,        *)
(* evaluation, repeated until the Retrieval is done, then finalize.        *)

LastStep(r) == r.steps[Len(r.steps)]

\* after generate_queries has returned or raised: choose the next stage
Loop_Route ==
    /\ loop = "query_generation"
    /\ pc \in {"returned", "raised"}
    /\ loop' = IF pc = "raised" THEN "error"
               ELSE IF ~success THEN "finalize"
               ELSE IF step.clarification_needed \/ Len(step.queries) = 0 THEN "finalize"
               ELSE "retrieval"
    /\ pc' = "idle"
    /\ UNCHANGED <<conversation, retrieval, attempts, success, step, genCalls, summary_ret, evalVars, storeVars, timeVars, webVars, callVars>>

\* the retriever fills the results of the round's step
Loop_Retrieve(results) ==
    /\ loop = "retrieval"
    /\ retrieval' = [retrieval EXCEPT !.steps[Len(retrieval.steps)].results = results]
    /\ loop' = "evaluation"
    /\ UNCHANGED <<conversation, pc, attempts, success, step, genCalls, summary_ret, evalVars, storeVars, timeVars, webVars, callVars>>

\* the evaluator summarizes the results; the loop continues unless done
Loop_Evaluate(summary) ==
    /\ loop = "evaluation"
    /\ retrieval' = IF Len(LastStep(retrieval).results) = 0 THEN retrieval
                    ELSE [retrieval EXCEPT !.steps[Len(retrieval.steps)].summary = summary]
    /\ loop' = IF retrieval.done THEN "finalize" ELSE "query_generation"
    /\ UNCHANGED <<conversation, pc, attempts, success, step, genCalls, summary_ret, evalVars, storeVars, timeVars, webVars, callVars>>

Loop_Finalize ==
    /\ loop = "finalize"
    /\ LET f == finalize(retrieval, FALSE) IN
       /\ retrieval' = f.r
       /\ summary_ret' = f.ret
    /\ loop' = "completed"
    /\ UNCHANGED <<conversation, pc, attempts, success, step, genCalls, evalVars, storeVars, timeVars, webVars, callVars>>

-----------------------------------------------------------------------------
(* Specifications of the retrieval session *)

Conversations == SeqsUpTo(Role, MaxMessages)

InitRetrievalCommon ==
    /\ conversation \in Conversations
    /\ retrieval \in {NoRetrieval} \cup {Retrieval(n) : n \in 1..MaxIterChoice}
    /\ pc = "idle"
    /\ attempts = 0
    /\ success = FALSE
    /\ step = NoStep
    /\ genCalls = 0
    /\ summary_ret = EmptyStr
    /\ EvalIdle /\ StoreIdle /\ CallIdle /\ TimeIdle /\ WebIdle

\* the retrieval loop drives the session
InitLoop == InitRetrievalCommon /\ loop = "query_generation"

NextLoop ==
    \/ GQ_Call
    \/ \E reply \in Reply : GQ_Attempt(reply)
    \/ GQ_Finish
    \/ Loop_Route
    \/ \E results \in {<<>>, <<"m1">>} : Loop_Retrieve(results)
    \/ \E summary \in {"", "s1"} : Loop_Evaluate(summary)
    \/ Loop_Finalize

SpecLoop == InitLoop /\ [][NextLoop]_vars

\* a direct caller makes any sequence of calls
InitCalls == InitRetrievalCommon /\ loop = "off"

NextCalls ==
    \/ GQ_Call
    \/ \E reply \in Reply : GQ_Attempt(reply)
    \/ GQ_Finish
    \/ \E s \in CallerSteps : AddStep(s)
    \/ MarkSatisfactory
    \/ \E force_new \in BOOLEAN : Finalize(force_new)

SpecCalls == InitCalls /\ [][NextCalls]_vars

-----------------------------------------------------------------------------
(* Properties of the retrieval session *)

HasRetrieval == retrieval # NoRetrieval

\* C1: under the retrieval loop, which starts a round only while done is
\* false, a Retrieval never holds more steps than its max_iterations.
C1_StepsWithinMaxIterations ==
    IF HasRetrieval THEN Len(retrieval.steps) <= retrieval.max_iterations ELSE TRUE

\* the loop has run into the iteration cap of the default Retrieval
C1_Witness ==
    IF HasRetrieval
    THEN /\ retrieval.max_iterations = DefaultMaxIterations
         /\ Len(retrieval.steps) = retrieval.max_iterations
         /\ retrieval.done /\ ~retrieval.satisfactory
         /\ loop = "completed"
    ELSE FALSE

\* generate_queries has returned after parsing a reply into a step without queries
ZeroQueryReturn ==
    /\ pc = "returned" /\ success
    /\ IF step = NoStep THEN FALSE ELSE Len(step.queries) = 0

\* the session's last step is one without queries and no call is in progress
ZeroQueryEnded ==
    /\ pc # "generating"
    /\ IF HasRetrieval
       THEN IF Len(retrieval.steps) > 0 THEN Len(LastStep(retrieval).queries) = 0 ELSE FALSE
       ELSE FALSE

\* C2: when generate_queries parses a step with zero queries, on return the
\* step is the last of the Retrieval, done and satisfactory are set, and from
\* then on the loop makes no generator, retriever or evaluator call.
C2_ZeroQueriesEndTheSession ==
    /\ [](ZeroQueryReturn =>
            /\ LastStep(retrieval) = step
            /\ retrieval.done /\ retrieval.satisfactory)
    /\ [][ZeroQueryEnded =>
            /\ ZeroQueryEnded'
            /\ pc' # "generating"
            /\ genCalls' = genCalls
            /\ loop' \notin {"retrieval", "evaluation"}
            /\ ~(loop # "query_generation" /\ loop' = "query_generation")]_vars

\* a zero-query step ended the session in its first round and the loop finished
C2_Witness ==
    /\ loop = "completed"
    /\ success
    /\ IF HasRetrieval
       THEN /\ Len(retrieval.steps) = 1
            /\ Len(retrieval.steps[1].queries) = 0
            /\ retrieval.done /\ retrieval.satisfactory
       ELSE FALSE

C4_IterationCountsSteps ==
    IF HasRetrieval THEN retrieval.current_iteration = Len(retrieval.steps) ELSE TRUE

\* steps were added, a generate_queries call failed and finalize has run
C4_Witness ==
    /\ pc = "returned" /\ ~success
    /\ IF HasRetrieval
       THEN /\ Len(retrieval.steps) >= 2
            /\ retrieval.satisfactory = FALSE
            /\ retrieval.final_summary # EmptyStr
       ELSE FALSE

-----------------------------------------------------------------------------
(* memory/evaluator.py *)

MaxEvalMemories == 3
MaxEvaluations == 3

MemoryIds == <<"m1", "m2", "m3", "m4">>

\* the relevance strings a reply carries, and str.lower() on them
RelevanceStr == {"PERFECT", "irrelevant", "bogus"}

Lower(str) ==
    CASE str = "PERFECT" -> "perfect"
      [] str = "irrelevant" -> "irrelevant"
      [] OTHER -> str

\* the match statement on the lower-cased relevance
MemoryRelevance(relevance) ==
    CASE relevance = "nonsense" -> "NONSENSE"
      [] relevance = "irrelevant" -> "IRRELEVANT"
      [] relevance = "supporting" -> "SUPPORTING"
      [] relevance = "relevant" -> "RELEVANT"
      [] relevance = "perfect" -> "PERFECT"
      [] OTHER -> "UNKNOWN"

InSeq(x, seq) == \E i \in 1..Len(seq) : seq[i] = x

\* the for loop over the evaluations: invalid ids are skipped, every other
\* evaluation appends its memory and its rating
RECURSIVE CollectEvaluations(_, _, _)
CollectEvaluations(evaluations, memories, acc) ==
    IF evaluations = <<>> THEN acc
    ELSE LET e == Head(evaluations)
             mem_id == e.memory_id_int - 1
         IN IF mem_id < 0 \/ mem_id >= Len(memories)
            THEN CollectEvaluations(Tail(evaluations), memories, acc)
            ELSE CollectEvaluations(Tail(evaluations), memories,
                    [memories |-> Append(acc.memories, memories[mem_id + 1]),
                     ratings |-> Append(acc.ratings, MemoryRelevance(Lower(e.relevance_str)))])

\* the back-fill loop: every memory not yet in the list is added as UNKNOWN
RECURSIVE BackFill(_, _)
BackFill(memories, acc) ==
    IF memories = <<>> THEN acc
    ELSE IF InSeq(Head(memories), acc.memories)
         THEN BackFill(Tail(memories), acc)
         ELSE BackFill(Tail(memories),
                       [memories |-> Append(acc.memories, Head(memories)),
                        ratings |-> Append(acc.ratings, "UNKNOWN")])

\* MemoryEvaluator._parse_evaluation_result
parse_evaluation_result(result, memories) ==
    LET collected == CollectEvaluations(result.evaluations_list, memories,
                                        [memories |-> <<>>, ratings |-> <<>>])
        filled == IF Len(collected.memories) # Len(memories)
                  THEN BackFill(memories, collected) ELSE collected
    IN [memories |-> filled.memories, ratings |-> filled.ratings,
        fully_answered |-> result.fully_answered_bool]

MemoryEvaluation == [memory_id_int : 0..(MaxEvalMemories + 1), relevance_str : RelevanceStr]

InitEval ==
    /\ ev_memories \in {SubSeq(MemoryIds, 1, n) : n \in 1..MaxEvalMemories}
    /\ ev_result \in [evaluations_list : SeqsUpTo(MemoryEvaluation, MaxEvaluations),
                      fully_answered_bool : BOOLEAN]
    /\ evaluation = NoEvaluation
    /\ relevant_ret = NotCalled
    /\ StoreIdle /\ CallIdle /\ TimeIdle /\ WebIdle
    /\ conversation = <<>> /\ retrieval = NoRetrieval /\ pc = "idle" /\ attempts = 0
    /\ success = FALSE /\ step = NoStep /\ genCalls = 0 /\ loop = "off"
    /\ summary_ret = EmptyStr

ParseEvaluationResult ==
    /\ evaluation = NoEvaluation
    /\ evaluation' = parse_evaluation_result(ev_result, ev_memories)
    /\ UNCHANGED <<ev_memories, ev_result, relevant_ret, retrievalVars, storeVars, timeVars, webVars, callVars>>

NextEval == ParseEvaluationResult

SpecEval == InitEval /\ [][NextEval]_vars

\* C5: for every EvaluationResult and every list of N distinct memories the
\* returned Evaluation lists exactly N memories, each input memory once, with
\* one rating each.
C5_EveryMemoryRatedOnce ==
    IF evaluation = NoEvaluation THEN TRUE
    ELSE /\ Len(evaluation.memories) = Len(ev_memories)
         /\ Len(evaluation.ratings) = Len(evaluation.memories)
         /\ \A i \in 1..Len(ev_memories) :
              Cardinality({j \in 1..Len(evaluation.memories) :
                             evaluation.memories[j] = ev_memories[i]}) = 1

\* MemoryRelevance
Relevance == {"NONSENSE", "IRRELEVANT", "SUPPORTING", "RELEVANT", "PERFECT", "UNKNOWN"}

ordered_relevance == <<"NONSENSE", "IRRELEVANT", "SUPPORTING", "RELEVANT", "PERFECT", "UNKNOWN">>

\* list.index, counted from 0
index(list, x) == (CHOOSE i \in 1..Len(list) : list[i] = x) - 1

\* the comprehension over zip(memories, ratings), which stops at the shorter list
RECURSIVE ZipFilter(_, _, _)
ZipFilter(memories, ratings, threshold_index) ==
    IF memories = <<>> \/ ratings = <<>> THEN <<>>
    ELSE LET rest == ZipFilter(Tail(memories), Tail(ratings), threshold_index)
         IN IF index(ordered_relevance, Head(ratings)) >= threshold_index
            THEN <<Head(memories)>> \o rest ELSE rest

\* Evaluation.get_relevant_memories
get_relevant_memories_by_plain_index(ev, threshold) ==
    LET threshold_index == index(ordered_relevance, threshold)
    IN ZipFilter(ev.memories, ev.ratings, threshold_index)

get_relevant_memories(ev, threshold) ==
    LET threshold_index == IF threshold # "UNKNOWN"
                           THEN index(ordered_relevance, threshold) ELSE 0
    IN ZipFilter(ev.memories, ev.ratings, threshold_index)

GetRelevantMemories(threshold) ==
    /\ evaluation # NoEvaluation
    /\ relevant_ret' = [called |-> TRUE, threshold |-> threshold,
                        memories |-> get_relevant_memories(evaluation, threshold)]
    /\ UNCHANGED <<ev_memories, ev_result, evaluation, retrievalVars, storeVars, timeVars, webVars, callVars>>

\* an Evaluation with one rating for each of its memories
Evaluations ==
    UNION {[memories : {SubSeq(MemoryIds, 1, n)}, ratings : [1..n -> Relevance],
            fully_answered : {FALSE}] : n \in 0..MaxEvalMemories}

InitRelevant ==
    /\ evaluation \in Evaluations
    /\ ev_memories = evaluation.memories
    /\ ev_result = [evaluations_list |-> <<>>, fully_answered_bool |-> FALSE]
    /\ relevant_ret = NotCalled
    /\ StoreIdle /\ CallIdle /\ TimeIdle /\ WebIdle
    /\ conversation = <<>> /\ retrieval = NoRetrieval /\ pc = "idle" /\ attempts = 0
    /\ success = FALSE /\ step = NoStep /\ genCalls = 0 /\ loop = "off"
    /\ summary_ret = EmptyStr

NextRelevant == \E threshold \in Relevance : GetRelevantMemories(threshold)

SpecRelevant == InitRelevant /\ [][NextRelevant]_vars

\* the rank of a rating in NONSENSE < IRRELEVANT < SUPPORTING < RELEVANT < PERFECT
Rank(rating) ==
    CASE rating = "NONSENSE" -> 1
      [] rating = "IRRELEVANT" -> 2
      [] rating = "SUPPORTING" -> 3
      [] rating = "RELEVANT" -> 4
      [] rating = "PERFECT" -> 5

\* the positions of the memories the threshold lets through
AtOrAbove(ev, threshold) ==
    {i \in 1..Len(ev.memories) :
        \/ ev.ratings[i] = "UNKNOWN"
        \/ threshold = "UNKNOWN"
        \/ Rank(ev.ratings[i]) >= Rank(threshold)}

\* C18: get_relevant_memories(threshold) returns, in input order, exactly the
\* memories rated at or above the threshold; a memory rated UNKNOWN is returned
\* for every threshold and the threshold UNKNOWN returns every memory.
C18_RelevantMemoriesByRank ==
    IF relevant_ret = NotCalled THEN TRUE
    ELSE LET kept == AtOrAbove(evaluation, relevant_ret.threshold)
             returned == relevant_ret.memories
         IN /\ Len(returned) = Cardinality(kept)
            /\ \A k \in 1..Len(returned) :
                  returned[k] = evaluation.memories[
                      CHOOSE i \in kept : Cardinality({j \in kept : j < i}) = k - 1]
            /\ relevant_ret.threshold = "UNKNOWN" => returned = evaluation.memories

\* the threshold SUPPORTING has dropped an IRRELEVANT memory between an UNKNOWN
\* and a PERFECT one
C18_Witness ==
    IF relevant_ret = NotCalled THEN FALSE
    ELSE /\ relevant_ret.threshold = "SUPPORTING"
         /\ evaluation.ratings = <<"UNKNOWN", "IRRELEVANT", "PERFECT">>
         /\ relevant_ret.memories = <<"m1", "m3">>

\* the threshold UNKNOWN has returned memories of every rating
C18_WitnessUnknownThreshold ==
    IF relevant_ret = NotCalled THEN FALSE
    ELSE /\ relevant_ret.threshold = "UNKNOWN"
         /\ evaluation.ratings = <<"NONSENSE", "PERFECT", "UNKNOWN">>
         /\ relevant_ret.memories = evaluation.memories

-----------------------------------------------------------------------------
(* memory/graph/neo4j_memory.py: the graph memory engine.                   *)
(* A Memory node carries the access properties; text, topic and embedding   *)
(* are payload.  The Storage singleton has no relationships and is left out. *)

MaxTime == 1
MaxCount == 2

\* the entity names in use, in string order
EntityNames == <<"New York", "e1", "e2", "e3", "new york", "new-york", "paris">>

NoSource == [none |-> TRUE]

Range(seq) == {seq[i] : i \in 1..Len(seq)}

Min(a, b) == IF a <= b THEN a ELSE b

\* the order of two names as strings
Index(names, x) == CHOOSE i \in 1..Len(names) : names[i] = x

Lt(names, a, b) == Index(names, a) < Index(names, b)

Put(f, k, v) == [x \in DOMAIN f \cup {k} |-> IF x = k THEN v ELSE f[x]]

\* a Memory object as handed to the engine
Memory(id, entities, source, last_access) ==
    [id |-> id, entities |-> entities, source |-> source, last_access |-> last_access,
     total_access_count |-> 0, positive_access_count |-> 0, negative_access_count |-> 0]

\* entities given as a list: each with count 1
EntityList(names) == [e \in names |-> 1]

\* MERGE (m:Memory {id}) SET m.* = data.*
MergeMemoryNode(g, data) ==
    [g EXCEPT !.memory_nodes =
        Put(g.memory_nodes, data.id,
            [last_access |-> data.last_access,
             total_access_count |-> data.total_access_count,
             positive_access_count |-> data.positive_access_count,
             negative_access_count |-> data.negative_access_count])]

\* MERGE of the Author nodes and AUTHORED_BY, of the Source node and SOURCED_FROM
MergeProvenance(g, data) ==
    IF data.source = NoSource THEN g
    ELSE [g EXCEPT !.authored_by = @ \cup {<<data.id, a>> : a \in data.source.authors},
                   !.sourced_from = @ \cup {<<data.id, data.source.name>>}]

\* the MENTIONS relationships this add creates (ON CREATE)
NewMentions(g, data) == {e \in DOMAIN data.entities : <<data.id, e>> \notin DOMAIN g.mentions}

\* MERGE (e:Entity) MERGE (m)-[men:MENTIONS]->(e)
\*   ON CREATE SET e.mentionsCount = COALESCE(e.mentionsCount, 0) + 1  SET men.count = count
MergeMentions(g, data) ==
    LET names == DOMAIN data.entities
        isNew == NewMentions(g, data)
    IN [g EXCEPT
          !.entity_nodes =
              [e \in DOMAIN g.entity_nodes \cup names |->
                  IF e \in isNew
                  THEN (IF e \in DOMAIN g.entity_nodes THEN g.entity_nodes[e] ELSE 0) + 1
                  ELSE g.entity_nodes[e]],
          !.mentions =
              [p \in DOMAIN g.mentions \cup {<<data.id, e>> : e \in names} |->
                  IF p[1] = data.id /\ p[2] \in names THEN data.entities[p[2]]
                  ELSE g.mentions[p]]]

\* MERGE (e1)-[r:MENTIONED_WITH]->(e2) ON CREATE 1 ON MATCH + 1, for the given pairs
MergeCoMentions(g, pairs) ==
    [g EXCEPT !.mentioned_with =
        [p \in DOMAIN g.mentioned_with \cup pairs |->
            IF p \in pairs
            THEN (IF p \in DOMAIN g.mentioned_with THEN g.mentioned_with[p] + 1 ELSE 1)
            ELSE g.mentioned_with[p]]]

\* _add_memory: every pair e1.name < e2.name of the memory's entities
CoMentionPairs(names) ==
    {p \in names \X names : Lt(EntityNames, p[1], p[2])}

\* _add_memory_batch, _add_memory_series: only pairs with a MENTIONS edge
\* created by this add (men1.isNew OR men2.isNew)
CoMentionPairsUngated(names, isNew) ==
    {p \in names \X names : Lt(EntityNames, p[1], p[2])}

CoMentionPairsBatch(names, isNew) ==
    {p \in names \X names :
        Lt(EntityNames, p[1], p[2]) /\ (p[1] \in isNew \/ p[2] \in isNew)}

\* Neo4jMemory._add_memory: the graph after the query.  MATCH (s:Storage) has
\* no row when the Storage node is missing, and the clauses after it do not run
add_memory(g, data) ==
    IF g.storage
    THEN MergeCoMentions(MergeMentions(MergeProvenance(MergeMemoryNode(g, data), data), data),
                         CoMentionPairs(DOMAIN data.entities))
    ELSE MergeProvenance(MergeMemoryNode(g, data), data)

\* one row of the UNWIND of _add_memory_batch and _add_memory_series
AddBatchRow(g, data) ==
    IF g.storage
    THEN MergeCoMentions(MergeMentions(MergeProvenance(MergeMemoryNode(g, data), data), data),
                         CoMentionPairsBatch(DOMAIN data.entities, NewMentions(g, data)))
    ELSE MergeProvenance(MergeMemoryNode(g, data), data)

\* the rows of a call whose id and entity set the store already holds
AlreadyStored(g, memories) ==
    {i \in 1..Len(memories) :
        /\ memories[i].id \in DOMAIN g.memory_nodes
        /\ DOMAIN memories[i].entities =
               {e \in DOMAIN g.entity_nodes : <<memories[i].id, e>> \in DOMAIN g.mentions}}

\* Neo4jMemory._add_memory_batch: the graph after all rows
RECURSIVE add_memory_batch(_, _)
add_memory_batch(g, memories) ==
    IF memories = <<>> THEN g
    ELSE add_memory_batch(AddBatchRow(g, Head(memories)), Tail(memories))

\* collect(DISTINCT m): the ids in order of first occurrence
RECURSIVE Distinct(_, _)
Distinct(seq, acc) ==
    IF seq = <<>> THEN acc
    ELSE Distinct(Tail(seq), IF InSeq(Head(seq), acc) THEN acc ELSE Append(acc, Head(seq)))

Ids(memories) == [i \in 1..Len(memories) |-> memories[i].id]

\* Neo4jMemory._add_memory_series: the batch add, then NEXT_IN_SERIES from each
\* memory to the next
SeriesLinksReversed(mems) == {<<mems[i + 1], mems[i]>> : i \in 1..(Len(mems) - 1)}

SeriesLinks(mems) == {<<mems[i], mems[i + 1]>> : i \in 1..(Len(mems) - 1)}

\* the rows that reach the RETURN of the batch and series queries
ReturnedRows(g, memories) == IF g.storage THEN Ids(memories) ELSE <<>>

add_memory_series(g, memories) ==
    LET added == add_memory_batch(g, memories)
        mems == Distinct(ReturnedRows(g, memories), <<>>)
    IN [added EXCEPT !.next_in_series = @ \cup SeriesLinks(mems)]


FeedbackType == {"POSITIVE", "NEGATIVE", "NEUTRAL"}

\* Neo4jMemory._update_memory_access, one row: SET m.last_access = timestamp(),
\* m.total_access_count = coalesce(m.total_access_count, 0) + 1.  The text that
\* names the feedback counter is appended after the RETURN clause, where it is
\* one more returned column (a comparison), not part of the SET.
UpdateAccessRow(g, mem_id, feedback, t) ==
    [g EXCEPT !.memory_nodes[mem_id] =
        [@ EXCEPT !.last_access = t, !.total_access_count = @ + 1]]

\* the rows of UNWIND $mem_ids that MATCH a Memory node
Matched(g, mem_ids) == SelectSeq(mem_ids, LAMBDA id : id \in DOMAIN g.memory_nodes)

RECURSIVE UpdateAccessRows(_, _, _, _)
UpdateAccessRows(g, rows, feedback, t) ==
    IF rows = <<>> THEN g
    ELSE UpdateAccessRows(UpdateAccessRow(g, Head(rows), feedback, t),
                          Tail(rows), feedback, t)

\* the graph after the query, run at time t
update_memory_access(g, mem_ids, feedback, t) ==
    UpdateAccessRows(g, Matched(g, mem_ids), feedback, t)

\* Neo4jMemory._connect_memories: the rows mem_id1 < mem_id2 of the double
\* UNWIND whose two Memory nodes exist, one MERGE each
ConnectRows(g, mem_ids) ==
    LET idx == {ij \in (1..Len(mem_ids)) \X (1..Len(mem_ids)) :
                   /\ Lt(MemoryIds, mem_ids[ij[1]], mem_ids[ij[2]])
                   /\ mem_ids[ij[1]] \in DOMAIN g.memory_nodes
                   /\ mem_ids[ij[2]] \in DOMAIN g.memory_nodes}
    IN [p \in {<<mem_ids[ij[1]], mem_ids[ij[2]]>> : ij \in idx} |->
           Cardinality({ij \in idx : <<mem_ids[ij[1]], mem_ids[ij[2]]>> = p})]

connect_memories(g, mem_ids) ==
    LET rows == ConnectRows(g, mem_ids) IN
    [g EXCEPT !.related_to =
        [p \in DOMAIN g.related_to \cup DOMAIN rows |->
            (IF p \in DOMAIN g.related_to THEN g.related_to[p] ELSE 0)
            + (IF p \in DOMAIN rows THEN rows[p] ELSE 0)]]

\* the counters of the graph stay within the model's bound
AllAtMost(f, n) == \A k \in DOMAIN f : f[k] <= n

WithinBounds(g) ==
    /\ AllAtMost(g.mentioned_with, MaxCount)
    /\ AllAtMost(g.related_to, MaxCount)
    /\ \A id \in DOMAIN g.memory_nodes : g.memory_nodes[id].total_access_count <= MaxCount

-----------------------------------------------------------------------------
(* Neo4jMemory._query_memory_series *)

\* the relationships along a path of NEXT_IN_SERIES, given as its nodes
PathEdges(path) == {<<path[i], path[i + 1]>> : i \in 1..(Len(path) - 1)}

\* the paths (prev_mem)-[:NEXT_IN_SERIES*0..n]->(origin): no relationship twice
RECURSIVE PathsTo(_, _, _)
PathsTo(g, origin, n) ==
    IF n = 0 THEN {<<origin>>}
    ELSE LET shorter == PathsTo(g, origin, n - 1) IN
         shorter \cup
         UNION {{<<e[1]>> \o q : e \in {e \in g.next_in_series :
                                          e[2] = q[1] /\ e \notin PathEdges(q)}} :
                q \in {q \in shorter : Len(q) = n}}

\* the paths (origin)-[:NEXT_IN_SERIES*0..n]->(next_mem)
RECURSIVE PathsFrom(_, _, _)
PathsFrom(g, origin, n) ==
    IF n = 0 THEN {<<origin>>}
    ELSE LET shorter == PathsFrom(g, origin, n - 1) IN
         shorter \cup
         UNION {{Append(q, e[2]) : e \in {e \in g.next_in_series :
                                            e[1] = q[Len(q)] /\ e \notin PathEdges(q)}} :
                q \in {q \in shorter : Len(q) = n}}

\* ORDER BY length(path) DESC LIMIT 1
Longest(paths) == {path \in paths : \A q \in paths : Len(q) <= Len(path)}

\* the lists the query can return: prev_path_nodes[0..-1] + next_path_nodes
query_memory_series(g, origin_id, previous_n, next_n) ==
    LET p == IF previous_n < 0 THEN 2 ELSE previous_n
        n == IF next_n < 0 THEN 2 ELSE next_n
    IN IF origin_id \notin DOMAIN g.memory_nodes THEN {<<>>}
       ELSE {SubSeq(prev, 1, Len(prev) - 1) \o next :
                prev \in Longest(PathsTo(g, origin_id, p)),
                next \in Longest(PathsFrom(g, origin_id, n))}

-----------------------------------------------------------------------------
(* Neo4jMemory._deep_relationship_traversal *)

MemoryNode(id) == <<"Memory", id>>
EntityNode(name) == <<"Entity", name>>
SourceNode(name) == <<"Source", name>>
AuthorNode(name) == <<"Author", name>>

\* every relationship of the graph as a pair of nodes; the expansion follows
\* all types in both directions
Relationships(g) ==
    {<<MemoryNode(p[1]), EntityNode(p[2])>> : p \in DOMAIN g.mentions}
    \cup {<<EntityNode(p[1]), EntityNode(p[2])>> : p \in DOMAIN g.mentioned_with}
    \cup {<<MemoryNode(p[1]), MemoryNode(p[2])>> : p \in g.next_in_series}
    \cup {<<MemoryNode(p[1]), MemoryNode(p[2])>> : p \in DOMAIN g.related_to}
    \cup {<<MemoryNode(p[1]), SourceNode(p[2])>> : p \in g.sourced_from}
    \cup {<<MemoryNode(p[1]), AuthorNode(p[2])>> : p \in g.authored_by}

Neighbours(g, nodes) ==
    {r[2] : r \in {r \in Relationships(g) : r[1] \in nodes}}
    \cup {r[1] : r \in {r \in Relationships(g) : r[2] \in nodes}}

\* apoc.path.expandConfig(start, {maxLevel, bfs: true, uniqueness: 'NODE_GLOBAL'}):
\* the pairs <<end node, length of its path>>; nodes in stopAt are not expanded
RECURSIVE Expand(_, _, _, _, _, _)
Expand(g, frontier, visited, depth, maxLevel, stopAt) ==
    LET here == {<<n, depth>> : n \in frontier} IN
    IF depth >= maxLevel \/ frontier = {} THEN here
    ELSE LET next == Neighbours(g, frontier \ stopAt) \ (visited \cup frontier)
         IN here \cup Expand(g, next, visited \cup frontier, depth + 1, maxLevel, stopAt)

\* 1 / max(depth, 0.5) as a fraction
ScoreFromOne(depth) ==
    [num |-> 1, den |-> depth + 1]

Score(depth) ==
    IF 2 * depth < 1 THEN [num |-> 2, den |-> 1] ELSE [num |-> 1, den |-> depth]

\* WHERE end:Memory AND end.id <> $originId AND NOT end.id IN $blacklist
TraversalRows(g, memory_id, max_depth, blacklist_ids) ==
    {r \in Expand(g, {MemoryNode(memory_id)}, {}, 0, max_depth, {}) :
        /\ r[1][1] = "Memory"
        /\ r[1][2] # memory_id
        /\ r[1][2] \notin blacklist_ids}

\* ORDER BY depth: the orders of the rows that the sort can produce
DepthOrders(rows) ==
    {ord \in [1..Cardinality(rows) -> rows] :
        /\ \A i, j \in 1..Cardinality(rows) : i # j => ord[i] # ord[j]
        /\ \A i, j \in 1..Cardinality(rows) : i < j => ord[i][2] <= ord[j][2]}

\* the lists of (memory id, score) the traversal can return
deep_relationship_traversal(g, memory_id, max_depth, stop_k, blacklist_ids) ==
    IF memory_id \notin DOMAIN g.memory_nodes THEN {<<>>}
    ELSE LET rows == TraversalRows(g, memory_id, max_depth, blacklist_ids)
             n == Min(stop_k, Cardinality(rows))
         IN {[i \in 1..n |-> [id |-> ord[i][1][2], score |-> Score(ord[i][2])]] :
                ord \in DepthOrders(rows)}

-----------------------------------------------------------------------------
(* The public operations of the engine *)

AddMemory(memory) ==
    /\ memory.last_access <= now
    /\ graph' = add_memory(graph, memory)
    /\ WithinBounds(graph')
    /\ store_call' = [op |-> "add_memory", memories |-> <<memory>>]
    /\ store_ret' = graph.storage
    /\ UNCHANGED <<now, retrievalVars, evalVars, timeVars, webVars, callVars>>

AddMemoryBatch(memories) ==
    /\ \A i \in 1..Len(memories) : memories[i].last_access <= now
    /\ graph' = add_memory_batch(graph, memories)
    /\ WithinBounds(graph')
    /\ store_call' = [op |-> "add_memory_batch", memories |-> memories,
                      existing |-> AlreadyStored(graph, memories)]
    /\ store_ret' = ReturnedRows(graph, memories)
    /\ UNCHANGED <<now, retrievalVars, evalVars, timeVars, webVars, callVars>>

AddMemorySeries(memories) ==
    /\ \A i \in 1..Len(memories) : memories[i].last_access <= now
    /\ graph' = add_memory_series(graph, memories)
    /\ WithinBounds(graph')
    /\ store_call' = [op |-> "add_memory_series", memories |-> memories,
                      existing |-> AlreadyStored(graph, memories)]
    /\ store_ret' = (Len(Distinct(ReturnedRows(graph, memories), <<>>)) = Len(memories))
    /\ UNCHANGED <<now, retrievalVars, evalVars, timeVars, webVars, callVars>>

ConnectMemories(mem_ids) ==
    /\ graph' = connect_memories(graph, mem_ids)
    /\ WithinBounds(graph')
    /\ store_call' = [op |-> "connect_memories", mem_ids |-> mem_ids]
    /\ store_ret' = TRUE
    /\ UNCHANGED <<now, retrievalVars, evalVars, timeVars, webVars, callVars>>

UpdateMemoryAccess(mem_ids, feedback) ==
    /\ \E t \in now..Min(now + 1, MaxTime) :
        /\ now' = t
        /\ graph' = update_memory_access(graph, mem_ids, feedback, t)
    /\ WithinBounds(graph')
    /\ store_call' = [op |-> "update_memory_access", mem_ids |-> mem_ids, feedback |-> feedback]
    /\ store_ret' = Matched(graph, mem_ids)
    /\ UNCHANGED <<retrievalVars, evalVars, timeVars, webVars, callVars>>

QueryMemorySeries(origin_id, previous, next) ==
    /\ \E result \in query_memory_series(graph, origin_id, previous, next) :
        store_ret' = result
    /\ store_call' = [op |-> "query_memory_series", origin_id |-> origin_id,
                      previous |-> previous, next |-> next]
    /\ UNCHANGED <<graph, now, retrievalVars, evalVars, timeVars, webVars, callVars>>

DeepRelationshipTraversal(memory_id, max_depth, stop_k, blacklist_ids) ==
    /\ \E result \in deep_relationship_traversal(graph, memory_id, max_depth, stop_k,
                                                 blacklist_ids) :
        store_ret' = result
    /\ store_call' = [op |-> "deep_relationship_traversal", memory_id |-> memory_id,
                      max_depth |-> max_depth, stop_k |-> stop_k,
                      blacklist_ids |-> blacklist_ids]
    /\ UNCHANGED <<graph, now, retrievalVars, evalVars, timeVars, webVars, callVars>>

\* the store after construction; the other parts hold their initial values
InitStore ==
    /\ StoreIdle /\ CallIdle /\ EvalIdle /\ TimeIdle /\ WebIdle
    /\ conversation = <<>> /\ retrieval = NoRetrieval /\ pc = "idle" /\ attempts = 0
    /\ success = FALSE /\ step = NoStep /\ genCalls = 0 /\ loop = "off"
    /\ summary_ret = EmptyStr

-----------------------------------------------------------------------------
(* Access updates on stored memories *)

MaxUpdateIds == 2

AccessIds == {"m1", "m2", "m3"}

\* the memories a caller stores here: "m3" is never stored
AccessMemories ==
    {Memory(id, EmptyFcn, NoSource, t) : id \in {"m1", "m2"}, t \in 0..MaxTime}

NextAccess ==
    \/ \E memory \in AccessMemories : AddMemory(memory)
    \/ \E mem_ids \in SeqsUpTo(AccessIds, MaxUpdateIds), feedback \in FeedbackType :
          UpdateMemoryAccess(mem_ids, feedback)

SpecAccess == InitStore /\ [][NextAccess]_vars

IsDistinct(seq) == \A i, j \in 1..Len(seq) : i # j => seq[i] # seq[j]

\* C6: update_memory_access(ids, feedback) on stored ids adds exactly 1 to
\* total_access_count of each id, adds exactly 1 to positive_access_count on
\* POSITIVE, to negative_access_count on NEGATIVE, to neither on NEUTRAL, leaves
\* the other feedback counter alone, and returns the ids it updated.
C6_AccessCountersFollowFeedback ==
    [][(/\ store_call'.op = "update_memory_access"
        /\ IsDistinct(store_call'.mem_ids)
        /\ Range(store_call'.mem_ids) \subseteq DOMAIN graph.memory_nodes)
       => /\ store_ret' = store_call'.mem_ids
          /\ \A id \in Range(store_call'.mem_ids) :
                LET old == graph.memory_nodes[id]
                    new == graph'.memory_nodes[id]
                    feedback == store_call'.feedback
                IN /\ new.total_access_count = old.total_access_count + 1
                   /\ new.positive_access_count =
                         old.positive_access_count + (IF feedback = "POSITIVE" THEN 1 ELSE 0)
                   /\ new.negative_access_count =
                         old.negative_access_count + (IF feedback = "NEGATIVE" THEN 1 ELSE 0)]_vars

-----------------------------------------------------------------------------
(* Adding and re-adding memories with entities *)

MaxBatch == 2

\* the memories a caller stores here: two ids, one entity or two
AddMemories ==
    {Memory(id, EntityList(names), NoSource, 0) :
        id \in {"m1", "m2"}, names \in {{"e1"}, {"e1", "e2"}}}

NextAdd ==
    \/ \E memory \in AddMemories : AddMemory(memory)
    \/ \E memories \in SeqsUpTo(AddMemories, MaxBatch) : AddMemoryBatch(memories)
    \/ \E memories \in SeqsUpTo(AddMemories, MaxBatch) : AddMemorySeries(memories)

SpecAdd == InitStore /\ [][NextAdd]_vars

\* C7: add_memory_batch or add_memory_series of memories whose id and entity
\* set the store already holds creates no Memory node and changes no
\* coMentionCount and no mentionsCount.
C7_ReAddKeepsCounts ==
    [][(/\ store_call'.op \in {"add_memory_batch", "add_memory_series"}
        /\ store_call'.memories # <<>>
        /\ AlreadyStored(graph, store_call'.memories) = DOMAIN store_call'.memories)
       => /\ DOMAIN graph'.memory_nodes = DOMAIN graph.memory_nodes
          /\ graph'.mentioned_with = graph.mentioned_with
          /\ graph'.entity_nodes = graph.entity_nodes
          /\ DOMAIN graph'.mentions = DOMAIN graph.mentions]_vars

\* a re-add of a stored memory with two entities has run, their co-mention
\* count is 1
C7_Witness ==
    /\ store_call.op \in {"add_memory_batch", "add_memory_series"}
    /\ store_call.memories # <<>>
    /\ store_call.existing = DOMAIN store_call.memories
    /\ \E i \in DOMAIN store_call.memories :
          DOMAIN store_call.memories[i].entities = {"e1", "e2"}
    /\ graph.mentioned_with = (<<"e1", "e2">> :> 1)
    /\ graph.entity_nodes["e1"] = 1

-----------------------------------------------------------------------------
(* Series of memories and the window around an origin *)

MaxSeries == 3
MaxWindow == 3

SeriesIds == {"m1", "m2", "m3"}

SeriesMemories == {Memory(id, EmptyFcn, NoSource, 0) : id \in SeriesIds}

\* the origin may be an id that was never stored; a negative count asks for
\* the default
NextSeries ==
    \/ \E memories \in SeqsUpTo(SeriesMemories, MaxSeries) : AddMemorySeries(memories)
    \/ \E origin_id \in SeriesIds \cup {"m4"}, previous \in -1..MaxWindow, next \in -1..MaxWindow :
          QueryMemorySeries(origin_id, previous, next)

SpecSeries == InitStore /\ [][NextSeries]_vars

Max(a, b) == IF a >= b THEN a ELSE b

\* the last call added a series of distinct ids and the store holds no other
\* series edge
SeriesJustAdded ==
    /\ store_call.op = "add_memory_series"
    /\ IsDistinct(Ids(store_call.memories))
    /\ Cardinality(graph.next_in_series) = Max(Len(store_call.memories) - 1, 0)

-----------------------------------------------------------------------------
(* Deep traversal over a graph of memories, entities, sources and authors *)

MaxDepth == 3
MaxStopK == 2

TraversalIds == {"m1", "m2", "m3"}

WebSource == [name |-> "s1", authors |-> {"a1"}]

\* the memories a caller stores here: a chain through shared entities, and
\* two memories from one source
TraversalMemories ==
    {Memory("m1", EntityList({"e1"}), NoSource, 0),
     Memory("m2", EntityList({"e1", "e2"}), NoSource, 0),
     Memory("m3", EntityList({"e2"}), WebSource, 0),
     Memory("m1", EmptyFcn, WebSource, 0)}

TraversalSeries ==
    <<Memory("m1", EmptyFcn, NoSource, 0), Memory("m2", EmptyFcn, NoSource, 0)>>

Blacklists == {{}} \cup {{id} : id \in TraversalIds}

NextTraversal ==
    \/ \E memory \in TraversalMemories : AddMemory(memory)
    \/ AddMemorySeries(TraversalSeries)
    \/ ConnectMemories(<<"m3", "m1">>)
    \/ \E memory_id \in TraversalIds, max_depth \in 1..MaxDepth, stop_k \in 1..MaxStopK,
          blacklist_ids \in Blacklists :
          DeepRelationshipTraversal(memory_id, max_depth, stop_k, blacklist_ids)

SpecTraversal == InitStore /\ [][NextTraversal]_vars

ReturnedIds == {store_ret[i].id : i \in 1..Len(store_ret)}

\* the memories that a walk of at most max_depth hops from the origin reaches
\* without leaving a blacklisted memory
ReachableAvoiding(g, memory_id, max_depth, blacklist_ids) ==
    {r[1][2] : r \in {r \in Expand(g, {MemoryNode(memory_id)}, {}, 0, max_depth,
                                   {MemoryNode(id) : id \in blacklist_ids}) :
                         r[1][1] = "Memory"}}

\* C9: a blacklisted memory is never returned and never traversed through: a
\* memory whose every path from the origin within max_depth passes through a
\* blacklisted memory is not in the result.
C9_BlacklistStopsTraversal ==
    (/\ store_call.op = "deep_relationship_traversal"
     /\ store_call.memory_id \notin store_call.blacklist_ids)
    => /\ ReturnedIds \cap store_call.blacklist_ids = {}
       /\ ReturnedIds \subseteq ReachableAvoiding(graph, store_call.memory_id,
                                                  store_call.max_depth,
                                                  store_call.blacklist_ids)


\* the nodes within d hops of the origin
RECURSIVE Within(_, _, _)
Within(g, origin, d) ==
    IF d = 0 THEN {origin}
    ELSE LET nearer == Within(g, origin, d - 1) IN nearer \cup Neighbours(g, nearer)

\* the hop distance of a node that is within max_depth hops of the origin
Distance(g, origin, node, max_depth) ==
    CHOOSE d \in 0..max_depth :
        /\ node \in Within(g, origin, d)
        /\ \A c \in 0..(d - 1) : node \notin Within(g, origin, c)

-----------------------------------------------------------------------------
(* Neo4jMemory._query_memories_by_entities *)

\* MATCH (primary_e:Entity {name: primary_name})<-[:MENTIONS]-(m:Memory), one
\* row per occurrence of the name in $entity_names and memory mentioning it;
\* diversity_score counts the other Entity nodes of the list that m mentions
EntityRows(g, entity_names, primary_name) ==
    {[occurrence |-> i, id |-> id,
      score |-> Cardinality({e \in Range(entity_names) \ {primary_name} :
                                <<id, e>> \in DOMAIN g.mentions}),
      last_access |-> g.memory_nodes[id].last_access] :
        i \in {i \in 1..Len(entity_names) : entity_names[i] = primary_name},
        id \in {id \in DOMAIN g.memory_nodes : <<id, primary_name>> \in DOMAIN g.mentions}}

\* ORDER BY diversity_score DESC, m.last_access DESC: row a may not come after b
PrecedesByRecencyOnly(a, b) ==
    a.last_access > b.last_access

Precedes(a, b) ==
    \/ a.score > b.score
    \/ a.score = b.score /\ a.last_access > b.last_access

\* ranked_memories[0..$top_n]: the slices the sort can produce
RECURSIVE RankedSlices(_, _)
RankedSlices(rows, top_n) ==
    IF top_n <= 0 \/ rows = {} THEN {<<>>}
    ELSE UNION {{<<[id |-> r.id, score |-> r.score]>> \o rest :
                    rest \in RankedSlices(rows \ {r}, top_n - 1)} :
                r \in {r \in rows : \A o \in rows : ~Precedes(o, r)}}

\* the dicts primary_name -> [(memory, score)] the query can return; a name
\* without rows has no key
query_memories_by_entities(g, entities, limit) ==
    LET slices == [e \in Range(entities) |-> RankedSlices(EntityRows(g, entities, e), limit)]
        keys == {e \in Range(entities) : slices[e] # {<<>>}}
    IN {ret \in [keys -> UNION {slices[e] : e \in keys}] :
           \A e \in keys : ret[e] \in slices[e]}

QueryMemoriesByEntities(entities, limit) ==
    /\ \E result \in query_memories_by_entities(graph, entities, limit) :
        store_ret' = result
    /\ store_call' = [op |-> "query_memories_by_entities", entities |-> entities,
                      limit |-> limit]
    /\ UNCHANGED <<graph, now, retrievalVars, evalVars, timeVars, webVars, callVars>>


MaxLimit == 3

\* the memories a caller stores here: m1 mentions e1, e2; m2 only e1; m3 all
\* three
EntityQueryMemories ==
    {Memory("m1", EntityList({"e1", "e2"}), NoSource, t) : t \in 0..MaxTime}
    \cup {Memory("m2", EntityList({"e1"}), NoSource, t) : t \in 0..MaxTime}
    \cup {Memory("m3", EntityList({"e1", "e2", "e3"}), NoSource, t) : t \in 0..MaxTime}

\* the lists a caller queries by: one name twice, an unknown name, and lists
\* of distinct names
EntityQueries ==
    {<<>>, <<"e1", "e1">>, <<"e2", "e1">>, <<"e1", "e4">>, <<"e1", "e2", "e3">>}

NextEntities ==
    \/ \E memory \in EntityQueryMemories : AddMemoryBatch(<<memory>>)
    \/ \E mem_ids \in {<<>>, <<"m2">>} : UpdateMemoryAccess(mem_ids, "NEUTRAL")
    \/ \E entities \in EntityQueries, limit \in 0..MaxLimit :
          QueryMemoriesByEntities(entities, limit)

SpecEntities == InitStore /\ [][NextEntities]_vars

Mentioning(g, e) == {id \in DOMAIN g.memory_nodes : <<id, e>> \in DOMAIN g.mentions}

\* C11: for each queried entity e the result lists only memories that mention
\* e, at most limit of them, each with the number of other queried entities it
\* mentions as score, ordered by score descending and then last_access
\* descending; for a list of distinct names these are the min(limit, number
\* of memories mentioning e) best ranked, each once.
C11_EntityQueryRanking ==
    store_call.op = "query_memories_by_entities"
    => LET entities == store_call.entities
           Diversity(id, e) ==
               Cardinality({o \in Range(entities) \ {e} : <<id, o>> \in DOMAIN graph.mentions})
           Access(id) == graph.memory_nodes[id].last_access
           Before(a, e, b) ==
               \/ Diversity(a, e) > Diversity(b, e)
               \/ Diversity(a, e) = Diversity(b, e) /\ Access(a) >= Access(b)
       IN /\ DOMAIN store_ret \subseteq Range(entities)
          /\ \A e \in DOMAIN store_ret :
                LET list == store_ret[e] IN
                /\ Len(list) <= store_call.limit
                /\ \A i \in 1..Len(list) :
                      /\ list[i].id \in Mentioning(graph, e)
                      /\ list[i].score = Diversity(list[i].id, e)
                /\ \A i, j \in 1..Len(list) : i < j => Before(list[i].id, e, list[j].id)
          /\ IsDistinct(entities) =>
                \A e \in Range(entities) :
                   LET list == IF e \in DOMAIN store_ret THEN store_ret[e] ELSE <<>>
                       listed == {list[i].id : i \in 1..Len(list)}
                   IN /\ Len(list) = Min(store_call.limit, Cardinality(Mentioning(graph, e)))
                      /\ Cardinality(listed) = Len(list)
                      /\ \A a \in listed, b \in Mentioning(graph, e) \ listed : Before(a, e, b)

\* queried by [e1, e2, e3]: for e1 the memory mentioning all three comes
\* first, then the one mentioning e1 and e2, then the one mentioning only e1,
\* although the last was accessed most recently
C11_Witness ==
    /\ store_call.op = "query_memories_by_entities"
    /\ store_call.entities = <<"e1", "e2", "e3">>
    /\ "e1" \in DOMAIN store_ret
    /\ store_ret["e1"] = <<[id |-> "m3", score |-> 2], [id |-> "m1", score |-> 1],
                           [id |-> "m2", score |-> 0]>>
    /\ graph.memory_nodes["m2"].last_access > graph.memory_nodes["m3"].last_access

-----------------------------------------------------------------------------
(* The remaining queries, reset, and store errors at the engine boundary *)

\* OPTIONAL MATCH (m)-[:SOURCED_FROM]->(s:Source): one row per Source of the
\* memory, one row when it has none
SourceRows(g, id) == Max(1, Cardinality({p \in g.sourced_from : p[1] = id}))

\* Neo4jMemory._query_memories_by_id: the ids of the returned memories
RECURSIVE query_memories_by_id(_, _)
query_memories_by_id(g, memory_ids) ==
    IF memory_ids = <<>> THEN <<>>
    ELSE LET id == Head(memory_ids)
             rows == IF id \in DOMAIN g.memory_nodes
                     THEN [i \in 1..SourceRows(g, id) |-> id] ELSE <<>>
         IN rows \o query_memories_by_id(g, Tail(memory_ids))

\* MATCH (m:Memory {id})-[r:RELATED_TO]-(related:Memory), in either direction
RelatedRows(g, memory_id) ==
    UNION {{[occurrence |-> i, id |-> (IF p[1] = memory_id THEN p[2] ELSE p[1]),
             strength |-> g.related_to[p]] :
               i \in 1..SourceRows(g, IF p[1] = memory_id THEN p[2] ELSE p[1])} :
           p \in {p \in DOMAIN g.related_to : memory_id \in {p[1], p[2]}}}

\* ORDER BY r.connection_strength DESC LIMIT $top_k
RECURSIVE StrongestSlices(_, _)
StrongestSlices(rows, top_k) ==
    IF top_k <= 0 \/ rows = {} THEN {<<>>}
    ELSE UNION {{<<[id |-> r.id, score |-> r.strength]>> \o rest :
                    rest \in StrongestSlices(rows \ {r}, top_k - 1)} :
                r \in {r \in rows : \A o \in rows : o.strength <= r.strength}}

\* Neo4jMemory._query_related_memories: the lists the query can return
query_related_memories(g, memory_id, top_k) ==
    StrongestSlices(RelatedRows(g, memory_id), top_k)

\* each id once per Source row
RECURSIVE WithSourceRows(_, _)
WithSourceRows(g, ids) ==
    IF ids = <<>> THEN <<>>
    ELSE [i \in 1..SourceRows(g, Head(ids)) |-> Head(ids)] \o WithSourceRows(g, Tail(ids))

\* Neo4jMemory._query_memories_by_vector: the index yields the top_k nearest
\* Memory nodes; which ones they are depends on the embeddings, so any top_k
\* distinct memories in any order
query_memories_by_vector(g, top_k) ==
    LET n == Min(top_k, Cardinality(DOMAIN g.memory_nodes))
    IN {WithSourceRows(g, ids) :
           ids \in {ids \in [1..n -> DOMAIN g.memory_nodes] : IsDistinct(ids)}}

\* Neo4jMemory.reset_database.  The delete runs in its own transaction, then
\* _init_db runs create_constraints and setup_storage_node in two more; an
\* error in any of them is caught and False returned.
ResetFaults == {"none", "delete", "constraints", "storage"}

reset_database(g, CONFIRM_DELETE, fault) ==
    IF ~CONFIRM_DELETE \/ fault = "delete" THEN [graph |-> g, ret |-> FALSE]
    ELSE IF fault \in {"constraints", "storage"}
         THEN [graph |-> [EmptyGraph EXCEPT !.storage = FALSE], ret |-> FALSE]
         ELSE [graph |-> EmptyGraph, ret |-> TRUE]

\* the operations whose body runs inside try / except Exception
GuardedButTraversal ==
    {"reset_database", "is_connected", "add_memory", "add_memory_batch",
     "add_memory_series", "query_memories_by_id", "query_memories_by_entities",
     "query_memories_by_vector", "connect_memories", "query_related_memories",
     "update_memory_access", "query_memory_series"}

Guarded ==
    {"reset_database", "is_connected", "add_memory", "add_memory_batch",
     "add_memory_series", "query_memories_by_id", "query_memories_by_entities",
     "query_memories_by_vector", "connect_memories", "query_related_memories",
     "update_memory_access", "query_memory_series", "deep_relationship_traversal"}

\* what the except branch of an operation returns
Sentinel(op) ==
    IF op \in {"reset_database", "is_connected", "add_memory", "add_memory_series",
               "connect_memories"}
    THEN FALSE
    ELSE IF op = "query_memories_by_entities" THEN EmptyFcn ELSE <<>>


QueryMemoriesById(memory_ids) ==
    /\ store_ret' = query_memories_by_id(graph, memory_ids)
    /\ store_call' = [op |-> "query_memories_by_id", memory_ids |-> memory_ids]
    /\ UNCHANGED <<graph, now, retrievalVars, evalVars, timeVars, webVars, callVars>>

QueryMemoriesByVector(top_k) ==
    /\ \E result \in query_memories_by_vector(graph, top_k) : store_ret' = result
    /\ store_call' = [op |-> "query_memories_by_vector", top_k |-> top_k]
    /\ UNCHANGED <<graph, now, retrievalVars, evalVars, timeVars, webVars, callVars>>

QueryRelatedMemories(memory_id, top_k) ==
    /\ \E result \in query_related_memories(graph, memory_id, top_k) : store_ret' = result
    /\ store_call' = [op |-> "query_related_memories", memory_id |-> memory_id,
                      top_k |-> top_k]
    /\ UNCHANGED <<graph, now, retrievalVars, evalVars, timeVars, webVars, callVars>>

\* Neo4jMemory.is_connected, the session answering
IsConnected ==
    /\ store_ret' = TRUE
    /\ store_call' = [op |-> "is_connected"]
    /\ UNCHANGED <<graph, now, retrievalVars, evalVars, timeVars, webVars, callVars>>

\* how an exception inside an operation ends for its caller
Ending(op) == IF op \in Guarded THEN "caught" ELSE "escaped"

ResetDatabase(CONFIRM_DELETE, fault) ==
    LET reset == reset_database(graph, CONFIRM_DELETE, fault)
        raised == CONFIRM_DELETE /\ fault # "none"
    IN /\ graph' = reset.graph
       /\ store_call' = IF raised
                        THEN [op |-> "reset_database", CONFIRM_DELETE |-> CONFIRM_DELETE,
                              error |-> Ending("reset_database")]
                        ELSE [op |-> "reset_database", CONFIRM_DELETE |-> CONFIRM_DELETE]
       /\ store_ret' = IF raised /\ Ending("reset_database") = "escaped"
                       THEN store_ret ELSE reset.ret
       /\ UNCHANGED <<now, retrievalVars, evalVars, timeVars, webVars, callVars>>

\* the session or the query of an operation raises: its single transaction
\* writes nothing, the except branch returns the sentinel
StoreError(call) ==
    /\ store_call' = [e \in DOMAIN call \cup {"error"} |->
                         IF e = "error" THEN Ending(call.op) ELSE call[e]]
    /\ store_ret' = IF Ending(call.op) = "caught" THEN Sentinel(call.op) ELSE store_ret
    /\ UNCHANGED <<graph, now, retrievalVars, evalVars, timeVars, webVars, callVars>>

FaultMemories ==
    {Memory("m1", EntityList({"e1", "e2"}), WebSource, 0),
     Memory("m2", EntityList({"e1"}), NoSource, 0)}

FaultSeries ==
    <<Memory("m1", EmptyFcn, NoSource, 0), Memory("m2", EmptyFcn, NoSource, 0)>>

\* one call of each operation that runs a transaction
FaultCalls ==
    {[op |-> "is_connected"],
     [op |-> "add_memory", memories |-> <<Memory("m2", EntityList({"e1"}), NoSource, 0)>>],
     [op |-> "add_memory_batch", memories |-> FaultSeries],
     [op |-> "add_memory_series", memories |-> FaultSeries],
     [op |-> "connect_memories", mem_ids |-> <<"m1", "m2">>],
     [op |-> "update_memory_access", mem_ids |-> <<"m1">>, feedback |-> "POSITIVE"],
     [op |-> "query_memories_by_id", memory_ids |-> <<"m1", "m3">>],
     [op |-> "query_memories_by_entities", entities |-> <<"e1">>, limit |-> 1],
     [op |-> "query_memories_by_vector", top_k |-> 2],
     [op |-> "query_related_memories", memory_id |-> "m1", top_k |-> 1],
     [op |-> "query_memory_series", origin_id |-> "m1", previous |-> 1, next |-> 1],
     [op |-> "deep_relationship_traversal", memory_id |-> "m1", max_depth |-> 2,
      stop_k |-> 2, blacklist_ids |-> {}]}

NextFaults ==
    \/ \E memory \in FaultMemories : AddMemory(memory)
    \/ AddMemoryBatch(FaultSeries)
    \/ AddMemorySeries(FaultSeries)
    \/ ConnectMemories(<<"m1", "m2">>)
    \/ UpdateMemoryAccess(<<"m1">>, "POSITIVE")
    \/ QueryMemoriesById(<<"m1", "m3">>)
    \/ QueryMemoriesByEntities(<<"e1">>, 1)
    \/ \E top_k \in 1..2 : QueryMemoriesByVector(top_k)
    \/ QueryRelatedMemories("m1", 1)
    \/ QueryMemorySeries("m1", 1, 1)
    \/ DeepRelationshipTraversal("m1", 2, 2, {})
    \/ IsConnected
    \/ \E CONFIRM_DELETE \in BOOLEAN, fault \in ResetFaults : ResetDatabase(CONFIRM_DELETE, fault)
    \/ \E call \in FaultCalls : StoreError(call)

SpecFaults == InitStore /\ [][NextFaults]_vars

BooleanOps ==
    {"reset_database", "is_connected", "add_memory", "add_memory_series", "connect_memories"}

WriteOps ==
    {"reset_database", "add_memory", "add_memory_batch", "add_memory_series",
     "connect_memories", "update_memory_access"}

\* C13: a write operation that reports failure because of an error leaves the
\* persisted nodes, edges and counters exactly as they were before the call.
C13_FailedWritesChangeNothing ==
    [][("error" \in DOMAIN store_call' /\ store_call'.op \in WriteOps)
       => graph' = graph]_vars

-----------------------------------------------------------------------------
(* Properties of finalize *)

ClarificationRequested(r) == \E i \in 1..Len(r.steps) : r.steps[i].clarification_needed

\* C14: finalize() returns the clarification prefix whenever some step of the
\* Retrieval has clarification_needed = true, for any number of steps, and a
\* summary when no step has.
C14_FinalizeAsksForClarification ==
    [][(\E force_new \in BOOLEAN : Finalize(force_new))
       => (summary_ret' = ClarificationPrefix <=> ClarificationRequested(retrieval))]_vars


\* C15: after a finalize() call, a second finalize() with force_new = false and
\* no change to the steps returns the same string and leaves final_summary
\* and the cached memory count as they are.
C15_FinalizeIdempotent ==
    [][(\E force_new \in BOOLEAN : Finalize(force_new))
       => LET second == finalize(retrieval', FALSE)
          IN /\ second.ret = summary_ret'
             /\ second.r.final_summary = retrieval'.final_summary
             /\ second.r.last_summary_count = retrieval'.last_summary_count]_vars

\* finalize() has returned the bullet list of a Retrieval with a result and no
\* step summary, and has cached it with the memory count
C15_Witness ==
    IF HasRetrieval
    THEN /\ summary_ret = FlatSummary(retrieval)
         /\ retrieval.final_summary = summary_ret
         /\ retrieval.last_summary_count = SumLen(StepResults(retrieval))
         /\ retrieval.last_summary_count >= 1
    ELSE FALSE

-----------------------------------------------------------------------------
(* Properties of generate_queries *)

\* C16: generate_queries on an empty conversation, or on one whose last
\* message is not a user message, raises before any call to the generator and
\* neither creates or modifies a Retrieval nor modifies the conversation.
C16_RaisesBeforeGenerating ==
    [][(GQ_Call /\ ~LastMessageIsUser)
       => /\ pc' = "raised"
          /\ genCalls' = genCalls
          /\ retrieval' = retrieval
          /\ conversation' = conversation]_vars

\* generate_queries has raised, once with no Retrieval given and an empty
\* conversation, once with a Retrieval whose steps stay as they were
C16_WitnessEmpty == pc = "raised" /\ retrieval = NoRetrieval /\ Len(conversation) = 0

C16_Witness ==
    /\ pc = "raised"
    /\ Len(conversation) > 0 /\ ~LastMessageIsUser
    /\ IF HasRetrieval THEN Len(retrieval.steps) > 0 ELSE FALSE

\* a reply whose "queries" list is non-empty and holds no usable entry
NoUsableQuery(reply) ==
    /\ reply.kind = "json"
    /\ Len(reply.queries) > 0
    /\ \A i \in 1..Len(reply.queries) : reply.queries[i] # "ok"

\* C17: a reply whose queries list is non-empty but holds no usable query is a
\* failed attempt, counted against the budget of max_attempts, and never
\* becomes the step of the call.
C17_UnusableReplyIsAFailedAttempt ==
    [][\A reply \in Reply :
          (GQ_Attempt(reply) /\ NoUsableQuery(reply))
          => (attempts' = attempts + 1 /\ ~success' /\ step' = step)]_vars

-----------------------------------------------------------------------------
(* core/sources.py: Source *)

None == "<None>"

\* str.strip().lower() on the strings used below
StripLower(str) ==
    CASE str = " A.com" -> "a.com"
      [] str = "Ann" -> "ann"
      [] str = "ann " -> "ann"
      [] str = "Bob" -> "bob"
      [] str = "P" -> "p"
      [] str = " " -> ""
      [] OTHER -> str

\* Source.normalize_source
normalize_source(source) ==
    IF source = None \/ source = "" THEN None ELSE StripLower(source)

\* Source.normalize_authors: cleaned, empty names dropped, sorted(set(...))
normalize_authors(authors) ==
    LET cleaned == {StripLower(authors[i]) : i \in 1..Len(authors)} \ {""}
    IN SelectSeq(<<"ann", "bob">>, LAMBDA a : a \in cleaned)

\* the dataclass constructor followed by __post_init__
Source(source_type, full_source, source, authors, publisher) ==
    [source_type |-> source_type,
     full_source |-> full_source,
     source |-> normalize_source(source),
     authors |-> normalize_authors(authors),
     publisher |-> normalize_source(publisher)]

\* Source.__eq__ against another Source
Source_eq(self, other) ==
    /\ self.source_type = other.source_type
    /\ self.full_source = other.full_source
    /\ self.source = other.source
    /\ self.authors = other.authors
    /\ self.publisher = other.publisher

\* Source.__hash__: the object that is hashed; two hashes agree when the
\* hashed objects are equal
Source_hash(self) ==
    IF self.source # None
    THEN [of |-> "str", value |-> <<self.source>>]
    ELSE [of |-> "tuple",
          value |-> <<self.source_type, self.full_source, self.authors, self.publisher>>]

HashEq(h1, h2) == h1.of = h2.of /\ h1.value = h2.value

Sources ==
    {Source(source_type, full_source, source, authors, publisher) :
        source_type \in {"WEB", "OTHER"},
        full_source \in {None, "https://a.com/x"},
        source \in {None, "", " A.com", "a.com", "b.org"},
        authors \in {<<>>, <<"Ann">>, <<"Bob", "ann ", " ">>},
        publisher \in {None, "P"}}

\* a == b and hash(a), hash(b) are evaluated
CompareSources ==
    /\ call_ret = NotCalled
    /\ call_ret' = [called |-> TRUE,
                    eq |-> Source_eq(call_args[1], call_args[2]),
                    hashes |-> HashEq(Source_hash(call_args[1]), Source_hash(call_args[2]))]
    /\ UNCHANGED <<call_args, retrievalVars, evalVars, storeVars, timeVars, webVars>>

InitSource ==
    /\ call_args \in Sources \X Sources
    /\ call_ret = NotCalled
    /\ RetrievalIdle /\ EvalIdle /\ StoreIdle /\ TimeIdle /\ WebIdle

NextSource == CompareSources

SpecSource == InitSource /\ [][NextSource]_vars

\* C21: two Source values with the same non-empty normalized source compare
\* equal and have equal hashes, whatever their other fields.
C21_SourceIdentityIsItsKey ==
    IF call_ret = NotCalled THEN TRUE
    ELSE (call_args[1].source # None /\ call_args[1].source = call_args[2].source)
         => (call_ret.eq /\ call_ret.hashes)

\* the hash half: equal keys give equal hashes
SourceHashFollowsKey ==
    IF call_ret = NotCalled THEN TRUE
    ELSE (call_args[1].source # None /\ call_args[1].source = call_args[2].source)
         => call_ret.hashes

-----------------------------------------------------------------------------
(* Entity names: utils/ner.py, Memory.__post_init__, Memory.add_entities *)

\* str.lower() on an entity name
EntityLower(entity) ==
    CASE entity = "New York" -> "new york"
      [] OTHER -> entity

\* NER.normalize_entity: strip, lower, whitespace runs joined by a hyphen
normalize_entity(entity) ==
    CASE entity \in {"New York", "new york"} -> "new-york"
      [] OTHER -> entity

\* Memory(memory, entities=[...]): __post_init__ keeps the names as given
MemoryFromList(id, entities) == Memory(id, EntityList(entities), NoSource, 0)

\* Memory(memory): set_memory takes the names from NER.get_entities
MemoryFromText(id, found) ==
    Memory(id, EntityList({normalize_entity(e) : e \in found}), NoSource, 0)

\* Memory.add_entities, one name after the other
RECURSIVE add_entities(_, _)
add_entities(memory, entities) ==
    IF entities = <<>> THEN memory
    ELSE LET entity == EntityLower(Head(entities))
             count == IF entity \in DOMAIN memory.entities
                      THEN memory.entities[entity] + 1 ELSE 1
         IN add_entities([memory EXCEPT !.entities = Put(@, entity, count)], Tail(entities))

SpellingSets == {{"New York"}, {"new york", "paris"}, {"new-york"}, {"New York", "paris"}}

NamedMemories ==
    UNION {{MemoryFromList(id, names),
            MemoryFromText(id, names),
            add_entities(MemoryFromText(id, {"paris"}), <<CHOOSE e \in names : TRUE>>)} :
              id \in {"m1", "m2"}, names \in SpellingSets}

NextNames ==
    \E memory \in NamedMemories :
        \/ AddMemory(memory)
        \/ AddMemoryBatch(<<memory>>)
        \/ AddMemorySeries(<<memory>>)

SpecNames == InitStore /\ [][NextNames]_vars

\* C22: every Entity node is keyed by a normalized name, also when the caller
\* supplies the entities; two spellings of one name never give two nodes.
C22_EntityNodesAreNormalized ==
    /\ \A e \in DOMAIN graph.entity_nodes : normalize_entity(e) = e
    /\ \A e1, e2 \in DOMAIN graph.entity_nodes :
          normalize_entity(e1) = normalize_entity(e2) => e1 = e2

-----------------------------------------------------------------------------
(* core/retrieval_results.py: RetrievalResults.purge and top_k.            *)
(* results maps a query id to its list of ranked results; a score is an    *)
(* integer here.                                                           *)

MaxPerQuery == 2
MaxScore == 2
MaxK == 3
MaxMinQueryResults == 2

QueryIds == <<"q1", "q2">>

\* list.sort(key=score, reverse=True), which is stable
RECURSIVE InsertByScore(_, _)
InsertByScore(x, sorted) ==
    IF sorted = <<>> THEN <<x>>
    ELSE IF Head(sorted).score >= x.score
         THEN <<Head(sorted)>> \o InsertByScore(x, Tail(sorted))
         ELSE <<x>> \o sorted

RECURSIVE SortByScore(_, _)
SortByScore(seq, sorted) ==
    IF seq = <<>> THEN sorted
    ELSE SortByScore(Tail(seq), InsertByScore(Head(seq), sorted))

\* the results of all queries, in the order of the dict's keys
RECURSIVE AllResults(_, _)
AllResults(results, query_ids) ==
    IF query_ids = <<>> THEN <<>>
    ELSE (IF Head(query_ids) \in DOMAIN results THEN results[Head(query_ids)] ELSE <<>>)
         \o AllResults(results, Tail(query_ids))

\* the loop that keeps min_query_results per query and sets the rest aside
RECURSIVE SplitMinimums(_, _, _, _, _)
SplitMinimums(all_results, min_query_results, included_queries, kept, remaining) ==
    IF all_results = <<>> THEN [results |-> kept, remaining |-> remaining]
    ELSE LET result == Head(all_results)
             q == result.query
         IN IF q \notin DOMAIN included_queries
            THEN SplitMinimums(Tail(all_results), min_query_results,
                               Put(included_queries, q, 1), Append(kept, result), remaining)
            ELSE IF included_queries[q] < min_query_results
            THEN SplitMinimums(Tail(all_results), min_query_results,
                               Put(included_queries, q, included_queries[q] + 1),
                               Append(kept, result), remaining)
            ELSE SplitMinimums(Tail(all_results), min_query_results,
                               included_queries, kept, Append(remaining, result))

\* a slice seq[:n]
Take(seq, n) == SubSeq(seq, 1, IF n < Len(seq) THEN n ELSE Len(seq))

\* RetrievalResults.top_k(k, min_score, query=None, min_query_results) with k an int
top_k_takes_k_remaining(results, k, min_score, min_query_results) ==
    LET all_results == SortByScore(AllResults(results, QueryIds), <<>>)
        split == SplitMinimums(all_results, min_query_results, EmptyFcn, <<>>, <<>>)
        chosen == IF min_query_results > 0
                  THEN IF Len(split.results) < k
                       THEN SortByScore(split.results \o Take(split.remaining, k), <<>>)
                       ELSE split.results
                  ELSE Take(all_results, k)
    IN SelectSeq(chosen, LAMBDA result : result.score >= min_score)

top_k(results, k, min_score, min_query_results) ==
    LET all_results == SortByScore(AllResults(results, QueryIds), <<>>)
        split == SplitMinimums(all_results, min_query_results, EmptyFcn, <<>>, <<>>)
        chosen == IF min_query_results > 0
                  THEN IF Len(split.results) < k
                       THEN SortByScore(split.results
                                          \o Take(split.remaining, k - Len(split.results)), <<>>)
                       ELSE split.results
                  ELSE Take(all_results, k)
    IN SelectSeq(chosen, LAMBDA result : result.score >= min_score)

\* RetrievalResults.add_result for each result in turn; _sources is empty
RECURSIVE AddResults(_, _)
AddResults(results, top_results) ==
    IF top_results = <<>> THEN results
    ELSE LET result == Head(top_results)
             q == result.query
         IN AddResults(Put(results, q, IF q \in DOMAIN results
                                        THEN Append(results[q], result) ELSE <<result>>),
                       Tail(top_results))

\* RetrievalResults.purge: the results left
purge(results, min_score, max_results, min_query_results) ==
    AddResults(EmptyFcn, top_k(results, max_results, min_score, min_query_results))

Purge ==
    /\ call_ret = NotCalled
    /\ call_ret' = [called |-> TRUE,
                    results |-> purge(call_args.results, call_args.min_score,
                                      call_args.max_results, call_args.min_query_results)]
    /\ UNCHANGED <<call_args, retrievalVars, evalVars, storeVars, timeVars, webVars>>

\* the ranked results of query q: up to MaxPerQuery results with any scores
ResultLists(q) ==
    UNION {{[i \in 1..n |-> [query |-> q, id |-> i, score |-> scores[i]]] :
               scores \in [1..n -> 0..MaxScore]} : n \in 0..MaxPerQuery}

InitPurge ==
    /\ call_args \in [results : {"q1" :> r1 @@ "q2" :> r2 :
                                    r1 \in ResultLists("q1"), r2 \in ResultLists("q2")},
                      min_score : 0..MaxScore,
                      max_results : 0..MaxK,
                      min_query_results : 1..MaxMinQueryResults]
    /\ call_ret = NotCalled
    /\ RetrievalIdle /\ EvalIdle /\ StoreIdle /\ TimeIdle /\ WebIdle

NextPurge == Purge

SpecPurge == InitPurge /\ [][NextPurge]_vars

\* the results a RetrievalResults holds, as a set
ResultSet(results) ==
    UNION {{results[q][i] : i \in 1..Len(results[q])} : q \in DOMAIN results}

OfQuery(set, q) == {r \in set : r.query = q}

AtLeast(a, b) == IF a >= b THEN a ELSE b

\* C23: after purge(min_score, max_results = k, min_query_results = m), m >= 1:
\* no survivor scores below min_score; of every query the highest-scoring
\* results up to m that meet min_score survive, even beyond k; and beyond
\* those per-query minimums at most k results survive.
C23_PurgeKeepsMinimumsAndCap ==
    IF call_ret = NotCalled THEN TRUE
    ELSE LET before == ResultSet(call_args.results)
             after == ResultSet(call_ret.results)
             eligible == {r \in before : r.score >= call_args.min_score}
             m == call_args.min_query_results
             minimums(q) == Min(m, Cardinality(OfQuery(eligible, q)))
         IN /\ after \subseteq eligible
            /\ \A q \in Range(QueryIds) :
                 /\ Cardinality(OfQuery(after, q)) >= minimums(q)
                 /\ \A kept \in OfQuery(after, q), dropped \in OfQuery(eligible \ after, q) :
                       kept.score >= dropped.score
            /\ Cardinality(after)
                 <= AtLeast(call_args.max_results, minimums("q1") + minimums("q2"))

\* both queries keep their best result although max_results is 1, and a
\* result below min_score is gone
C23_Witness ==
    IF call_ret = NotCalled THEN FALSE
    ELSE /\ call_args.max_results = 1
         /\ call_args.min_query_results = 1
         /\ call_args.min_score = 1
         /\ Cardinality(ResultSet(call_ret.results)) = 2
         /\ DOMAIN call_ret.results = {"q1", "q2"}
         /\ \E r \in ResultSet(call_args.results) : r.score = 0

-----------------------------------------------------------------------------
(* RELATED_TO edges: connect_memories and query_related_memories *)

MaxConnectIds == 3

RelatedIds == {"m1", "m2", "m3"}

RelatedMemories == {Memory(id, EmptyFcn, NoSource, 0) : id \in RelatedIds}

NextRelated ==
    \/ \E memory \in RelatedMemories : AddMemory(memory)
    \/ \E mem_ids \in SeqsUpTo(RelatedIds, MaxConnectIds) : ConnectMemories(mem_ids)
    \/ \E memory_id \in RelatedIds, limit \in 0..MaxLimit :
          QueryRelatedMemories(memory_id, limit)

SpecRelated == InitStore /\ [][NextRelated]_vars

\* the strength of the RELATED_TO edge between a and b, 0 without an edge
Strength(g, a, b) ==
    (IF <<a, b>> \in DOMAIN g.related_to THEN g.related_to[<<a, b>>] ELSE 0)
    + (IF <<b, a>> \in DOMAIN g.related_to THEN g.related_to[<<b, a>>] ELSE 0)

\* at most one edge per unordered pair, none from a memory to itself, and
\* only between stored memories
OneEdgePerPair(g) ==
    \A p \in DOMAIN g.related_to :
        /\ p[1] # p[2]
        /\ <<p[2], p[1]>> \notin DOMAIN g.related_to
        /\ {p[1], p[2]} \subseteq DOMAIN g.memory_nodes

\* a connect_memories call adds one to the strength of the pairs of stored
\* memories its list contains, and nothing to the others
CountsTheCall(ids) ==
    \A a, b \in DOMAIN graph.memory_nodes :
        a # b => Strength(graph', a, b) =
                   Strength(graph, a, b) + (IF {a, b} \subseteq Range(ids) THEN 1 ELSE 0)

\* the list returned for memory_id: its neighbours with the strength of their
\* edge, strongest first, at most top_k
RelatedAnswer(g, memory_id, limit, result) ==
    LET neighbours == {b \in DOMAIN g.memory_nodes : Strength(g, memory_id, b) > 0}
    IN /\ Len(result) = Min(limit, Cardinality(neighbours))
       /\ \A i \in 1..Len(result) :
            /\ result[i].id \in neighbours
            /\ result[i].score = Strength(g, memory_id, result[i].id)
       /\ \A i, j \in 1..Len(result) :
            i < j => result[i].score >= result[j].score /\ result[i].id # result[j].id

\* C24: there is at most one RELATED_TO edge per unordered pair of stored
\* memories and none to itself; each connect_memories call whose list holds
\* both memories adds one to its strength; query_related_memories returns the
\* other endpoints with that strength, strongest first, at most top_k.
C24_ConnectionStrengthCountsCalls ==
    /\ []OneEdgePerPair(graph)
    /\ [][IF store_call'.op = "connect_memories"
          THEN CountsTheCall(store_call'.mem_ids)
          ELSE graph'.related_to = graph.related_to]_vars
    /\ [][(store_call'.op = "query_related_memories")
          => RelatedAnswer(graph', store_call'.memory_id, store_call'.top_k, store_ret')]_vars

\* the same for calls whose list names no memory twice
C24_DistinctIdsCountOnce ==
    /\ []OneEdgePerPair(graph)
    /\ [][IF store_call'.op = "connect_memories"
          THEN IsDistinct(store_call'.mem_ids) => CountsTheCall(store_call'.mem_ids)
          ELSE graph'.related_to = graph.related_to]_vars
    /\ [][(store_call'.op = "query_related_memories")
          => RelatedAnswer(graph', store_call'.memory_id, store_call'.top_k, store_ret')]_vars

-----------------------------------------------------------------------------
(* core/memory.py: TimeRelevance.time_decay.  Elapsed time is counted in    *)
(* half-lives of the kind, so that exp(-decay_rate * days_since) is the     *)
(* exact power 2^-n; a decayed value is kept as its numerator over the      *)
(* common denominator 10 * 2^MaxHalfLives.                                  *)

MaxHalfLives == 3
MaxValue == 2

TimeRelevance == {"UNKNOWN", "DAY", "WEEK", "MONTH", "YEAR", "DECADE", "CENTURY", "ALWAYS"}

half_time(kind) ==
    CASE kind = "DAY" -> 2
      [] kind = "WEEK" -> 14
      [] kind = "MONTH" -> 60
      [] kind = "YEAR" -> 730
      [] kind = "DECADE" -> 7300
      [] kind = "CENTURY" -> 73000
      [] kind = "ALWAYS" -> 730000
      [] OTHER -> 1000

RECURSIVE Pow2(_)
Pow2(n) == IF n = 0 THEN 1 ELSE 2 * Pow2(n - 1)

\* days_since = sec_since / 86400 for n half-lives of the kind
DaysSince(kind, n) == n * half_time(kind)

\* days_since / half_time, a whole number for the times used here
HalfLives(kind, days_since) == days_since \div half_time(kind)

\* a decay that ignores the elapsed time of the ALWAYS and UNKNOWN kinds only
\* where the code does, but grows instead of shrinking elsewhere
time_decay_grows(kind, value, days_since) ==
    LET n == HalfLives(kind, days_since)
        exp == Pow2(n)
    IN IF kind = "UNKNOWN" THEN 9 * value * Pow2(MaxHalfLives)
       ELSE IF kind = "ALWAYS" THEN 8 * value * Pow2(MaxHalfLives) + 2 * value * exp
       ELSE 10 * value * exp

\* TimeRelevance.time_decay(value, sec_since), times 10 * 2^MaxHalfLives;
\* the elapsed time is passed in days (sec_since / 86400)
time_decay(kind, value, days_since) ==
    LET n == HalfLives(kind, days_since)
        exp == Pow2(MaxHalfLives - n)
    IN IF kind = "UNKNOWN" THEN 9 * value * Pow2(MaxHalfLives)
       ELSE IF kind = "ALWAYS" THEN 8 * value * Pow2(MaxHalfLives) + 2 * value * exp
       ELSE 10 * value * exp

TimeDecay ==
    /\ call_ret = NotCalled
    /\ call_ret' = [called |-> TRUE,
                    at_t1 |-> time_decay(call_args.kind, call_args.value, call_args.t1),
                    at_t2 |-> time_decay(call_args.kind, call_args.value, call_args.t2)]
    /\ UNCHANGED <<call_args, retrievalVars, evalVars, storeVars, timeVars, webVars>>

InitDecay ==
    /\ \E kind \in TimeRelevance, value \in (-MaxValue)..MaxValue :
       \E n1, n2 \in 0..MaxHalfLives :
          /\ n1 < n2
          /\ call_args = [kind |-> kind, value |-> value,
                          t1 |-> DaysSince(kind, n1), t2 |-> DaysSince(kind, n2)]
    /\ call_ret = NotCalled
    /\ RetrievalIdle /\ EvalIdle /\ StoreIdle /\ TimeIdle /\ WebIdle

NextDecay == TimeDecay

SpecDecay == InitDecay /\ [][NextDecay]_vars

\* 0.8 * value over the same denominator
Floor(value) == 8 * value * Pow2(MaxHalfLives)

\* C25: for every kind and every value, time_decay(value, t1) >=
\* time_decay(value, t2) whenever t1 < t2, and for ALWAYS the decayed value
\* never drops below 0.8 * value.
C25_DecayIsMonotone ==
    IF call_ret = NotCalled THEN TRUE
    ELSE /\ call_ret.at_t1 >= call_ret.at_t2
         /\ call_args.kind = "ALWAYS" =>
               /\ call_ret.at_t1 >= Floor(call_args.value)
               /\ call_ret.at_t2 >= Floor(call_args.value)

\* C25, for values that are not negative: time_decay(value, t1) >=
\* time_decay(value, t2) whenever t1 < t2 and value >= 0, and for ALWAYS the
\* decayed value never drops below 0.8 * value.
C25_DecayIsMonotoneFromZero ==
    IF call_ret = NotCalled THEN TRUE
    ELSE call_args.value >= 0 =>
           /\ call_ret.at_t1 >= call_ret.at_t2
           /\ call_args.kind = "ALWAYS" =>
                 /\ call_ret.at_t1 >= Floor(call_args.value)
                 /\ call_ret.at_t2 >= Floor(call_args.value)

\* a positive value of kind ALWAYS has decayed, and stays above its floor
C25_Witness ==
    /\ call_ret # NotCalled
    /\ call_args.kind = "ALWAYS"
    /\ call_args.value > 0
    /\ call_ret.at_t1 > call_ret.at_t2
    /\ call_ret.at_t2 > Floor(call_args.value)

-----------------------------------------------------------------------------
(* The two causes of done without satisfactory, in the retrieval loop *)

\* the session is over and was not marked satisfactory
EndedUnsatisfied ==
    /\ HasRetrieval
    /\ retrieval.done
    /\ ~retrieval.satisfactory

\* the last generate_queries call left its while loop without a parsed step
EndedByGenerationFailure == EndedUnsatisfied /\ ~success

\* the last generate_queries call appended a step, and add_step set done
EndedByIterationCap == EndedUnsatisfied /\ success

\* C26: in every state of the retrieval loop with done = true and
\* satisfactory = false, the Retrieval ended because of generation failure
\* iff current_iteration < max_iterations, and because of the iteration cap
\* iff current_iteration >= max_iterations.
C26_DoneCausesTellApart ==
    EndedUnsatisfied =>
        /\ EndedByGenerationFailure <=> retrieval.current_iteration < retrieval.max_iterations
        /\ EndedByIterationCap <=> retrieval.current_iteration >= retrieval.max_iterations

\* a session that failed after a completed round, the cap not yet reached
C26_WitnessFailure ==
    /\ EndedByGenerationFailure
    /\ retrieval.current_iteration > 0
    /\ loop = "completed"

\* a session that ended at the iteration cap
C26_WitnessCap ==
    /\ EndedByIterationCap
    /\ retrieval.current_iteration = retrieval.max_iterations
    /\ loop = "completed"

-----------------------------------------------------------------------------
(* Co-mention counts against the MENTIONS edges *)

\* the Memory nodes with MENTIONS edges to both entities
MentioningBoth(g, e1, e2) == Mentioning(g, e1) \cap Mentioning(g, e2)

\* the coMentionCount of the MENTIONED_WITH edge between e1 and e2, 0 without an edge
CoMentionCount(g, e1, e2) ==
    IF <<e1, e2>> \in DOMAIN g.mentioned_with THEN g.mentioned_with[<<e1, e2>>] ELSE 0

CoMentionsMatchMentions(g) ==
    \A e1, e2 \in DOMAIN g.entity_nodes :
        Lt(EntityNames, e1, e2) =>
            CoMentionCount(g, e1, e2) = Cardinality(MentioningBoth(g, e1, e2))

\* C27: after any sequence of add_memory, add_memory_batch and
\* add_memory_series calls, re-adds included, the coMentionCount between two
\* entities equals the number of distinct Memory nodes with MENTIONS edges to
\* both of them.
C27_CoMentionCountsDistinctMemories == CoMentionsMatchMentions(graph)

\* the same for the calls that gate the increment on new MENTIONS edges
NextAddBatches ==
    \/ \E memories \in SeqsUpTo(AddMemories, MaxBatch) : AddMemoryBatch(memories)
    \/ \E memories \in SeqsUpTo(AddMemories, MaxBatch) : AddMemorySeries(memories)

SpecAddBatches == InitStore /\ [][NextAddBatches]_vars

C27_BatchCountsDistinctMemories ==
    graph.storage => CoMentionsMatchMentions(graph)

-----------------------------------------------------------------------------
(* Calls on a Retrieval that is already done *)

\* no call changes the steps or the iteration count of a done Retrieval
DoneAcceptsNoStep ==
    IF HasRetrieval
    THEN retrieval.done =>
            /\ retrieval'.steps = retrieval.steps
            /\ retrieval'.current_iteration = retrieval.current_iteration
    ELSE TRUE

StepsWithinCap == HasRetrieval => Len(retrieval.steps) <= retrieval.max_iterations

\* C28: generate_queries or add_step on a Retrieval with done = true leaves
\* steps and current_iteration unchanged, so len(steps) <= max_iterations
\* holds for every sequence of calls.
C28_DoneRetrievalTakesNoStep == [][DoneAcceptsNoStep]_vars /\ []StepsWithinCap

-----------------------------------------------------------------------------
(* webui/api.py: the in-progress flag is cleared in the end *)

\* pipeline.generate returns or raises on its thread and has put no update on
\* the queue that ends _handle_pipeline_updates: the call stays suspended in
\* `await queue.get()`, which nothing completes
PipelineEndsSilently(c) ==
    /\ c \in running
    /\ web_pc[c] = "streaming"
    /\ running' = running \ {c}
    /\ web_pc' = [web_pc EXCEPT ![c] = "waiting"]
    /\ UNCHANGED <<generating_response, conversations, chunks>>
    /\ UNCHANGED <<retrievalVars, evalVars, storeVars, timeVars, callVars>>

NextWebLive ==
    \/ NextWeb
    \/ \E c \in Calls : PipelineEndsSilently(c)

\* the event loop resumes every coroutine that is ready; a client need not
\* disconnect, send another request, or be sent a further update
LoopFairness ==
    \A c \in Calls :
        /\ WF_vars(WebRejectedReturn(c))
        /\ WF_vars(WebRespond(c))
        /\ WF_vars(\E mode \in {"chat", "compare"} : WebFinish(c, mode))
        /\ WF_vars(WebCompareDone(c) \/ WebFail(c))

\* the executor thread of pipeline.generate comes to an end
PipelineEnds(c) ==
    \/ \E outcome \in {"returned", "raised"} : PipelineReturn(c, outcome)
    \/ PipelineEndsSilently(c)

PipelineEndsAfterFinalUpdate(c) ==
    \E outcome \in {"returned", "raised"} : PipelineReturn(c, outcome)

SpecWebLive ==
    /\ InitWeb /\ [][NextWebLive]_vars
    /\ LoopFairness
    /\ \A c \in Calls : WF_vars(PipelineEnds(c))

\* the pipeline always emits an update that ends _handle_pipeline_updates
SpecWebFinalUpdate ==
    /\ InitWeb /\ [][NextWeb]_vars
    /\ LoopFairness
    /\ \A c \in Calls : WF_vars(PipelineEndsAfterFinalUpdate(c))

\* the call has set the flag and its finally clause has not run
FlagSetBy(c) ==
    web_pc[c] \in {"streaming", "waiting", "returned", "raised", "responding", "comparing"}

\* C29: every generate_response call that sets the in-progress flag
\* eventually clears it, whether pipeline.generate returns normally, raises,
\* or finishes without ever emitting a COMPLETED or ERROR update.
C29_FlagIsEventuallyCleared ==
    \A c \in Calls : FlagSetBy(c) ~> (web_pc[c] = "done")

\* the same when pipeline.generate always emits its final update
C29_FlagClearedAfterFinalUpdate ==
    \A c \in Calls : (web_pc[c] = "streaming") ~> (web_pc[c] = "done")

-----------------------------------------------------------------------------
(* core/retrieval.py: finalize after a step's summary was written *)

Summaries == {"", "s1", "s2"}

\* the evaluator assigns the summary of the round's step
SetSummary(summary) ==
    /\ loop = "off" /\ ~InCall
    /\ retrieval # NoRetrieval
    /\ Len(retrieval.steps) > 0
    /\ LastStep(retrieval).summary # summary
    /\ retrieval' = [retrieval EXCEPT !.steps[Len(retrieval.steps)].summary = summary]
    /\ UNCHANGED <<conversation, pc, attempts, success, step, genCalls, loop, summary_ret, evalVars, storeVars, timeVars, webVars, callVars>>

InitSummaries == InitCalls /\ conversation = <<"user">> /\ retrieval # NoRetrieval

NextSummaries ==
    \/ \E s \in CallerSteps : AddStep(s)
    \/ \E summary \in Summaries : SetSummary(summary)
    \/ \E force_new \in BOOLEAN : Finalize(force_new)

SpecSummaries == InitSummaries /\ [][NextSummaries]_vars

\* some step of the Retrieval has a summary
HasSummary(r) == JoinSummaries(r) # EmptyStr

\* C30: when no clarification is pending, finalize(force_new = false) returns
\* the newline-joined non-empty summaries of the current steps, also when a
\* step's summary was set or changed after an earlier finalize() call and the
\* total number of results stayed the same.
C30_FinalizeReturnsCurrentSummaries ==
    [][(/\ Finalize(FALSE)
        /\ ~needs_clarification(retrieval)
        /\ HasSummary(retrieval))
       => summary_ret' = JoinSummaries(retrieval)]_vars

\* the same for finalize(force_new = true)
C30_ForcedFinalizeReturnsCurrentSummaries ==
    [][(/\ Finalize(TRUE)
        /\ ~Finalize(FALSE)
        /\ ~needs_clarification(retrieval)
        /\ HasSummary(retrieval))
       => summary_ret' = JoinSummaries(retrieval)]_vars

====
